---- MODULE Spec2Model ----
(***************************************************************************)
(* phylactery: lifetime extension through a Soul (anchor) and its Liches   *)
(* (handles).  The binding strategies are modelled, each with its own      *)
(* specification over a shared set of variables:                           *)
(*   SpecAtomic  the pinned Soul with an AtomicU32 count (soul.rs/lich.rs) *)
(*   SpecSeverers the same Soul severed by several threads at once        *)
(*   SpecSlot    the Arc<RwLock<Option<..>>> binding (lock.rs + lib.rs)    *)
(*               and the Rc<RefCell<Option<..>>> binding (cell.rs + lib.rs)*)
(*   SpecRaw     the raw-pointer binding and its sever_panic (raw.rs)      *)
(*   SpecPairs   redeem over several rituals: the Rc, the ritual-based     *)
(*               atomic and the pointer-owning bindings                    *)
(*   SpecRitual  the ritual over a u32 location used as an AtomicU32       *)
(*               (atomic.rs + lib.rs), with its wait and wake_one          *)
(*   SpecOrdering the memory orderings of the operations on the counter    *)
(*               and the happens-before they give the severing thread      *)
(*   SpecCounting the raw Soul with a usize of bindings and the Lich over  *)
(*               a bare pointer (phylactery/src/raw.rs)                    *)
(***************************************************************************)
EXTENDS Integers, FiniteSets, Sequences, TLC

(* ------------------------------------------------------------------------ *)
(* Bounds and program constants                                             *)
(* ------------------------------------------------------------------------ *)

\* number of Lich identities that can exist at the same time
MaxLiches == 2

\* number of threads that can be inside a forcing sever at the same time
MaxThreads == 1

\* width in bits of the AtomicU32 counter: 32 in the source, scaled down here
\* because the model checker's integers stop at 2^31 - 1; every operation on
\* the counter is computed modulo 2^CounterBits exactly as the source computes
\* it modulo 2^32
CounterBits == 3

\* u32::MAX, the largest counter value and the severed sentinel
U32MAX == 2^CounterBits - 1

\* the two pinned Souls (two distinct addresses) of the counter strategy
Souls == {1, 2}

Liches == 1..MaxLiches

Threads == 1..MaxThreads

(* ------------------------------------------------------------------------ *)
(* State                                                                    *)
(* ------------------------------------------------------------------------ *)

VARIABLES
    count,      \* Soul.count: the AtomicU32 of each Soul
    soul,       \* each Soul: "alive", "dropping" (destructor running), "dropped"
    lichPc,     \* each Lich: "none", "live", "wake" (destructor before wake_one)
    lichCount,  \* Lich.count: the Soul whose counter the Lich points at
    pc,         \* each thread inside sever::<true>: "idle","cas","wait","asleep"
    tsoul,      \* the Soul whose counter the thread severs (0 when idle)
    tdrop,      \* TRUE when the forcing sever is the one of <Soul as Drop>::drop
    obs,        \* the value the failed compare_exchange observed
    last,       \* the last completed call and its result
    binding,    \* slot strategies: "lock" (Arc<RwLock>) or "cell" (Rc<RefCell>)
    slot,       \* the Option<NonNull<T>> inside the lock or cell: TRUE is Some
    lich,       \* each Lich (Data): "none","live","wlock","locked","release"
    guards,     \* the Guards alive that each Lich's borrow returned
    probe,      \* TRUE while a borrow of the Lich holds a read guard on None
    life,       \* the Soul (Life): "bound","wlock","locked","done","panicked","aborted"
    lifeOp,     \* the call that consumes the Soul: "sever","drop","try_sever","redeem"
    lichSevering, \* TRUE once a Lich::sever call has begun
    forcedDone,   \* TRUE once a forcing sever has returned
    std,        \* raw: the build has the feature "std"
    PANIC,      \* raw: the static AtomicBool of sever_panic (build without std)
    panicking,  \* raw: the thread is unwinding from a panic
    rlich,      \* raw: the Lich of each pair: "live" or "gone"
    rsoul,      \* raw: the Soul of each pair: "live" or "gone"
    addr,       \* raw: the address of the value each pair was made from
    raised,     \* raw: the misuse panics raised by the halves of each pair
    pre,        \* raw: what the thread was doing at each disposal of a half
    kind,       \* pairs: "rc" (lock, cell), "atomic" (ritual counter), "pointer"
    pslot,      \* pairs: the slot of each ritual: TRUE is Some
    psoul,      \* pairs: the Soul of each ritual: "alive" or "gone"
    plich,      \* pairs: the ritual each Lich belongs to, 0 if it does not exist
    pcount,     \* pairs: the u32 location of each ritual ("atomic")
    location,   \* ritual counter: the u32 the ritual was given, as an AtomicU32
    alich,      \* ritual counter: each Lich: "none","live","wake" (before wake_one)
    asoul,      \* ritual counter: the Soul: "alive","redeem","cas","wait","asleep","done"
    aseen,      \* ritual counter: the value the failed compare_exchange observed
    aop,        \* ritual counter: the call that consumed the Soul
    aret,       \* ritual counter: what Soul::sever returned: "none","true","false"
    okind,      \* ordering: "soul" (soul.rs, lich.rs) or "ritual" (atomic.rs)
    ocount,     \* ordering: the AtomicU32
    olich,      \* ordering: each Lich, on a thread of its own: "none","live","gone"
    acc,        \* ordering: the Liches through which the value has been read
    rel,        \* ordering: the Liches whose reads a release on the counter carries
    hb,         \* ordering: the Liches whose reads happen-before the sever's return
    osoul,      \* ordering: the Soul: "alive" or "severed"
    cchecks,    \* counting raw: the build checks integer overflow (debug)
    cstd,       \* counting raw: the build has the feature "std"
    cPANIC,     \* counting raw: the static AtomicBool of panic (build without std)
    cpanicking, \* counting raw: the thread is unwinding from a panic
    caborted,   \* counting raw: a panic was raised while unwinding
    cbind,      \* counting raw: Soul.0 of each Soul, the usize of bindings
    cown,       \* counting raw: each Soul: "live", "severed" (try_sever Ok), "dropped"
    cptr,       \* counting raw: the address Soul.1.pointer() of each Soul
    clich       \* counting raw: the Soul each Lich was bound from, 0 if it does not exist

\* the variables of the counter strategy
avars == <<count, soul, lichPc, lichCount, pc, tsoul, tdrop, obs>>

\* the variables of the slot strategies
svars == <<binding, slot, lich, guards, probe, life, lifeOp, lichSevering, forcedDone>>

\* the variables of the raw strategy
rvars == <<std, PANIC, panicking, rlich, rsoul, addr, raised, pre>>

\* the variables of the redeem of two rituals
pvars == <<kind, pslot, psoul, plich, pcount>>

\* the variables of the ritual with a counter location
lvars == <<location, alich, asoul, aseen, aop, aret>>

\* the variables of the memory orderings on the counter
ovars == <<okind, ocount, olich, acc, rel, hb, osoul>>

\* the variables of the counting raw strategy
cvars == <<cchecks, cstd, cPANIC, cpanicking, caborted, cbind, cown, cptr, clich>>

\* what the actions of each strategy leave alone
notAtomic == <<svars, rvars, pvars, lvars, ovars, cvars>>

notSlot == <<avars, rvars, pvars, lvars, ovars, cvars>>

notRaw == <<avars, svars, pvars, lvars, ovars, cvars>>

notPairs == <<avars, svars, rvars, lvars, ovars, cvars>>

notRitual == <<avars, svars, rvars, pvars, ovars, cvars>>

notOrdering == <<avars, svars, rvars, pvars, lvars, cvars>>

notCounting == <<avars, svars, rvars, pvars, lvars, ovars>>

vars == <<count, soul, lichPc, lichCount, pc, tsoul, tdrop, obs, last,
          binding, slot, lich, guards, probe, life, lifeOp, lichSevering, forcedDone,
          std, PANIC, panicking, rlich, rsoul, addr, raised, pre,
          kind, pslot, psoul, plich, pcount,
          location, alich, asoul, aseen, aop, aret,
          okind, ocount, olich, acc, rel, hb, osoul,
          cchecks, cstd, cPANIC, cpanicking, caborted, cbind, cown, cptr, clich>>

(* ------------------------------------------------------------------------ *)
(* Pure helpers of the counter strategy                                     *)
(* ------------------------------------------------------------------------ *)

\* u32 wrapping arithmetic
wrapping_add(a, b) == (a + b) % (U32MAX + 1)

wrapping_sub(a, b) == (a - b + U32MAX + 1) % (U32MAX + 1)

saturating_sub(a, b) == IF a >= b THEN a - b ELSE 0

\* a faulty bindings: the loaded counter value itself, sentinel included
bindings_raw(c) == c

\* Soul::bindings / Lich::bindings applied to a loaded counter value
bindings(c) == saturating_sub(wrapping_add(c, 1), 1)

\* a faulty is_bound: any Lich that points at some counter counts as bound
is_bound_any(s, l) == lichCount[l] \in Souls

\* Soul::is_bound: ptr::eq(&self.count, lich.count)
is_bound(s, l) == lichCount[l] = s

\* the Liches whose destructor or redeem has not yet decremented the counter
LiveLiches(s) == {l \in Liches : lichPc[l] = "live" /\ lichCount[l] = s}

FreeLiches == {l \in Liches : lichPc[l] = "none"}

\* the identity given to the next Lich that is created
NewLich == CHOOSE l \in FreeLiches : \A m \in FreeLiches : l <= m

\* the thread that makes the next blocking call: the lowest one not inside one
\* (0 when every thread is inside a forcing sever)
IdleThread ==
    IF \E t \in DOMAIN pc : pc[t] = "idle"
    THEN CHOOSE t \in DOMAIN pc : pc[t] = "idle" /\ \A u \in DOMAIN pc : pc[u] = "idle" => t <= u
    ELSE 0

Result(op, s, l, ok, val) == [op |-> op, soul |-> s, lich |-> l, ok |-> ok, val |-> val]

NoResult == Result("none", 0, 0, TRUE, 0)

(* ------------------------------------------------------------------------ *)
(* Init                                                                     *)
(* ------------------------------------------------------------------------ *)

\* the slot strategies before any ritual
NoSlot ==
    /\ binding = "none"
    /\ slot = FALSE
    /\ lich = [l \in Liches |-> "none"]
    /\ guards = [l \in Liches |-> 0]
    /\ probe = [l \in Liches |-> FALSE]
    /\ life = "done"
    /\ lifeOp = "none"
    /\ lichSevering = FALSE
    /\ forcedDone = FALSE

\* number of raw pairs and of rituals redeemed against each other
Pairs == {1, 2}

\* the raw strategy before any ritual
NoRaw ==
    /\ std = TRUE
    /\ PANIC = FALSE
    /\ panicking = FALSE
    /\ rlich = [p \in Pairs |-> "gone"]
    /\ rsoul = [p \in Pairs |-> "gone"]
    /\ addr = [p \in Pairs |-> 0]
    /\ raised = [p \in Pairs |-> 0]
    /\ pre = [p \in Pairs |-> <<>>]

\* Lich identities of the two rituals
PLiches == 1..(MaxLiches + 1)

\* the two rituals before they are made
NoPairs ==
    /\ kind = "none"
    /\ pslot = [r \in Pairs |-> FALSE]
    /\ psoul = [r \in Pairs |-> "gone"]
    /\ plich = [l \in PLiches |-> 0]
    /\ pcount = [r \in Pairs |-> 0]

\* Lich identities of the ritual with a counter location
ALiches == 1..(MaxLiches + 1)

\* the ritual with a counter location before it is made
NoRitual ==
    /\ location = 0
    /\ alich = [l \in ALiches |-> "none"]
    /\ asoul = "done"
    /\ aseen = 0
    /\ aop = "none"
    /\ aret = "none"

\* Lich identities of the memory-ordering model, none used twice
OLiches == 1..(MaxLiches + 1)

\* the memory-ordering model before any Soul
NoOrdering ==
    /\ okind = "none"
    /\ ocount = 0
    /\ olich = [l \in OLiches |-> "none"]
    /\ acc = {}
    /\ rel = {}
    /\ hb = {}
    /\ osoul = "severed"

\* Soul and Lich identities of the counting raw strategy
CSouls == {1, 2}

CLiches == 1..MaxLiches

\* the counting raw strategy before any Soul
NoCounting ==
    /\ cchecks = TRUE
    /\ cstd = TRUE
    /\ cPANIC = FALSE
    /\ cpanicking = FALSE
    /\ caborted = FALSE
    /\ cbind = [s \in CSouls |-> 0]
    /\ cown = [s \in CSouls |-> "dropped"]
    /\ cptr = [s \in CSouls |-> 0]
    /\ clich = [l \in CLiches |-> 0]

\* the counter strategy before any bind
NoAtomic ==
    /\ count = [s \in Souls |-> 0]
    /\ soul = [s \in Souls |-> "alive"]
    /\ lichPc = [l \in Liches |-> "none"]
    /\ lichCount = [l \in Liches |-> 0]
    /\ pc = [t \in Threads |-> "idle"]
    /\ tsoul = [t \in Threads |-> 0]
    /\ tdrop = [t \in Threads |-> FALSE]
    /\ obs = [t \in Threads |-> 0]

\* Soul::new for every Soul, each then pinned; no Lich exists
InitAtomic ==
    /\ NoSlot
    /\ NoRaw
    /\ NoPairs
    /\ NoRitual
    /\ NoOrdering
    /\ NoCounting
    /\ count = [s \in Souls |-> 0]
    /\ soul = [s \in Souls |-> "alive"]
    /\ lichPc = [l \in Liches |-> "none"]
    /\ lichCount = [l \in Liches |-> 0]
    /\ pc = [t \in Threads |-> "idle"]
    /\ tsoul = [t \in Threads |-> 0]
    /\ tdrop = [t \in Threads |-> FALSE]
    /\ obs = [t \in Threads |-> 0]
    /\ last = NoResult

(* ------------------------------------------------------------------------ *)
(* Actions of the counter strategy                                          *)
(* ------------------------------------------------------------------------ *)

\* Soul::bind: fetch_add(1) on the counter, then a Lich pointing at it
bind(s) ==
    /\ soul[s] = "alive"
    /\ FreeLiches # {}
    /\ count' = [count EXCEPT ![s] = wrapping_add(count[s], 1)]
    /\ lichPc' = [lichPc EXCEPT ![NewLich] = "live"]
    /\ lichCount' = [lichCount EXCEPT ![NewLich] = s]
    /\ last' = Result("bind", s, 0, TRUE, 0)
    /\ UNCHANGED <<soul, pc, tsoul, tdrop, obs>>
    /\ UNCHANGED notAtomic

\* increment: fetch_update that refuses to go past u32::MAX - 1
\* returns <<new counter, "ok" | "unreachable" | "panic">>
increment(c) ==
    IF c < U32MAX - 1 THEN <<c + 1, "ok">>
    ELSE IF c = U32MAX THEN <<c, "unreachable">>
    ELSE <<c, "panic">>

\* <Lich as Clone>::clone
clone(l) ==
    /\ lichPc[l] = "live"
    /\ soul[lichCount[l]] # "dropped"
    /\ FreeLiches # {}
    /\ LET s == lichCount[l]
           r == increment(count[s])
       IN /\ count' = [count EXCEPT ![s] = r[1]]
          /\ IF r[2] = "ok"
             THEN /\ lichPc' = [lichPc EXCEPT ![NewLich] = "live"]
                  /\ lichCount' = [lichCount EXCEPT ![NewLich] = s]
                  /\ last' = Result("clone", s, 0, TRUE, 0)
             ELSE /\ UNCHANGED <<lichPc, lichCount>>
                  /\ last' = Result("clone", s, 0, FALSE, 0)
    /\ UNCHANGED <<soul, pc, tsoul, tdrop, obs>>
    /\ UNCHANGED notAtomic

\* decrement: fetch_sub(1); 0 and u32::MAX are unreachable!() after the store
\* returns <<new counter, "ok" | "unreachable">>
decrement(c) ==
    IF c = 0 \/ c = U32MAX THEN <<wrapping_sub(c, 1), "unreachable">>
    ELSE <<c - 1, "ok">>

\* <Lich as Drop>::drop, first half: decrement(count)
LichDrop(l) ==
    /\ lichPc[l] = "live"
    /\ soul[lichCount[l]] # "dropped"
    /\ LET s == lichCount[l]
           r == decrement(count[s])
       IN /\ count' = [count EXCEPT ![s] = r[1]]
          /\ IF r[2] = "ok" /\ r[1] = 0
             THEN /\ lichPc' = [lichPc EXCEPT ![l] = "wake"]
                  /\ UNCHANGED lichCount
             ELSE /\ lichPc' = [lichPc EXCEPT ![l] = "none"]
                  /\ lichCount' = [lichCount EXCEPT ![l] = 0]
          /\ last' = Result("drop", s, 0, r[2] = "ok", 0)
    /\ UNCHANGED <<soul, pc, tsoul, tdrop, obs>>
    /\ UNCHANGED notAtomic

\* atomic_wait::wake_one on the counter of Soul s: one sleeper, if any, resumes
wake_one(s) ==
    IF \E t \in DOMAIN pc : pc[t] = "asleep" /\ tsoul[t] = s
    THEN \E t \in DOMAIN pc :
            /\ pc[t] = "asleep" /\ tsoul[t] = s
            /\ pc' = [pc EXCEPT ![t] = "cas"]
    ELSE UNCHANGED pc

\* <Lich as Drop>::drop, second half: the decrement returned 0, wake_one(count)
LichWake(l) ==
    /\ lichPc[l] = "wake"
    /\ wake_one(lichCount[l])
    /\ lichPc' = [lichPc EXCEPT ![l] = "none"]
    /\ lichCount' = [lichCount EXCEPT ![l] = 0]
    /\ last' = NoResult
    /\ UNCHANGED <<count, soul, tsoul, tdrop, obs>>
    /\ UNCHANGED notAtomic

\* Deref for Lich: data_ref().unwrap(), no check at all
deref(l) ==
    /\ lichPc[l] = "live"
    /\ last' = Result("deref", lichCount[l], 0, soul[lichCount[l]] # "dropped", 0)
    /\ UNCHANGED <<count, soul, lichPc, lichCount, pc, tsoul, tdrop, obs>>
    /\ UNCHANGED notAtomic

\* Soul::redeem: forget(lich) and fetch_sub(1) when bound, Err(lich) otherwise
redeem(s, l) ==
    /\ soul[s] = "alive"
    /\ lichPc[l] = "live"
    /\ IF is_bound(s, l)
       THEN /\ count' = [count EXCEPT ![s] = wrapping_sub(count[s], 1)]
            /\ lichPc' = [lichPc EXCEPT ![l] = "none"]
            /\ lichCount' = [lichCount EXCEPT ![l] = 0]
            /\ last' = Result("redeem", s, l, TRUE, count[s])
       ELSE /\ UNCHANGED <<count, lichPc, lichCount>>
            /\ last' = Result("redeem", s, l, FALSE, 0)
    /\ UNCHANGED <<soul, pc, tsoul, tdrop, obs>>
    /\ UNCHANGED notAtomic

\* a faulty compare_exchange: swaps the sentinel in whatever the counter holds
compare_exchange_any(c) == <<U32MAX, "true">>

\* the compare_exchange(0, u32::MAX) of sever: <<new counter, result>>
\* result: "true" (break true), "fail" (a count in 1..u32::MAX-1 was observed)
compare_exchange(c) ==
    IF c = 0 THEN <<U32MAX, "true">>
    ELSE IF c = U32MAX THEN <<c, "true">>
    ELSE <<c, "fail">>

\* Soul::try_sever: sever::<false>, one compare_exchange, never waits
try_sever(s) ==
    /\ soul[s] = "alive"
    /\ LET r == compare_exchange(count[s])
       IN /\ count' = [count EXCEPT ![s] = r[1]]
          /\ last' = Result("try_sever", s, 0, r[2] = "true", bindings(r[1]))
    /\ UNCHANGED <<soul, lichPc, lichCount, pc, tsoul, tdrop, obs>>
    /\ UNCHANGED notAtomic

\* Soul::sever called by thread t through a Pin<S>: enters sever::<true>
sever_call(t, s) ==
    /\ t = IdleThread
    /\ soul[s] = "alive"
    /\ pc' = [pc EXCEPT ![t] = "cas"]
    /\ tsoul' = [tsoul EXCEPT ![t] = s]
    /\ tdrop' = [tdrop EXCEPT ![t] = FALSE]
    /\ last' = NoResult
    /\ UNCHANGED <<count, soul, lichPc, lichCount, obs>>
    /\ UNCHANGED notAtomic

\* <Soul as Drop>::drop by thread t: the owner drops the Soul, which no other
\* call borrows any more; enters sever::<true>
drop_call(t, s) ==
    /\ t = IdleThread
    /\ soul[s] = "alive"
    /\ \A u \in DOMAIN pc : tsoul[u] # s
    /\ soul' = [soul EXCEPT ![s] = "dropping"]
    /\ pc' = [pc EXCEPT ![t] = "cas"]
    /\ tsoul' = [tsoul EXCEPT ![t] = s]
    /\ tdrop' = [tdrop EXCEPT ![t] = TRUE]
    /\ last' = NoResult
    /\ UNCHANGED <<count, lichPc, lichCount, obs>>
    /\ UNCHANGED notAtomic

\* sever::<true>, the compare_exchange of one loop turn: on success the call
\* returns (Soul::sever unpins, the destructor frees the Soul), otherwise the
\* thread goes on to atomic_wait::wait(count, value)
sever_cas(t) ==
    /\ pc[t] = "cas"
    /\ LET s == tsoul[t]
           r == compare_exchange(count[s])
       IN /\ count' = [count EXCEPT ![s] = r[1]]
          /\ IF r[2] = "true"
             THEN /\ pc' = [pc EXCEPT ![t] = "idle"]
                  /\ tsoul' = [tsoul EXCEPT ![t] = 0]
                  /\ tdrop' = [tdrop EXCEPT ![t] = FALSE]
                  /\ obs' = [obs EXCEPT ![t] = 0]
                  /\ soul' = IF tdrop[t] THEN [soul EXCEPT ![s] = "dropped"] ELSE soul
                  /\ last' = Result(IF tdrop[t] THEN "soul_drop" ELSE "sever",
                                    s, 0, TRUE, bindings(r[1]))
             ELSE /\ pc' = [pc EXCEPT ![t] = "wait"]
                  /\ obs' = [obs EXCEPT ![t] = r[1]]
                  /\ last' = NoResult
                  /\ UNCHANGED <<soul, tsoul, tdrop>>
    /\ UNCHANGED <<lichPc, lichCount>>
    /\ UNCHANGED notAtomic

\* atomic_wait::wait(count, value): sleeps only if the counter still holds value
wait(t) ==
    /\ pc[t] = "wait"
    /\ pc' = [pc EXCEPT ![t] = IF count[tsoul[t]] = obs[t] THEN "asleep" ELSE "cas"]
    /\ obs' = [obs EXCEPT ![t] = 0]
    /\ last' = NoResult
    /\ UNCHANGED <<count, soul, lichPc, lichCount, tsoul, tdrop>>
    /\ UNCHANGED notAtomic

\* atomic_wait::wait may return spuriously, without a wake
spurious_wake(t) ==
    /\ pc[t] = "asleep"
    /\ pc' = [pc EXCEPT ![t] = "cas"]
    /\ last' = NoResult
    /\ UNCHANGED <<count, soul, lichPc, lichCount, tsoul, tdrop, obs>>
    /\ UNCHANGED notAtomic

NextAtomic ==
    \/ \E s \in Souls : bind(s)
    \/ \E l \in Liches : clone(l)
    \/ \E l \in Liches : LichDrop(l)
    \/ \E l \in Liches : LichWake(l)
    \/ \E l \in Liches : deref(l)
    \/ \E s \in Souls, l \in Liches : redeem(s, l)
    \/ \E s \in Souls : try_sever(s)
    \/ \E t \in Threads, s \in Souls : sever_call(t, s)
    \/ \E t \in Threads, s \in Souls : drop_call(t, s)
    \/ \E t \in Threads : sever_cas(t)
    \/ \E t \in Threads : wait(t)
    \/ \E t \in Threads : spurious_wake(t)

SpecAtomic == InitAtomic /\ [][NextAtomic]_vars

\* a running thread keeps running: the compare_exchange, the futex wait and the
\* wake_one of a destructor are eventually executed; a spurious wake-up and the
\* calls of the program are not guaranteed
FairSpecAtomic ==
    /\ SpecAtomic
    /\ \A t \in Threads : WF_vars(sever_cas(t)) /\ WF_vars(wait(t))
    /\ \A l \in Liches : WF_vars(LichWake(l))

(***************************************************************************)
(* Several severing threads on one pinned Soul: the counter strategy with  *)
(* one thread more, each calling Soul::sever through a copy of Pin<&Soul>  *)
(* or a clone of Pin<Arc<Soul>>.  The other Soul has been dropped.  The    *)
(* program binds no Lich from a severed Soul and lets its Liches go by     *)
(* dropping them; the bind that wraps the sentinel and redeem, which wakes *)
(* nobody, are left to SpecAtomic.                                         *)
(***************************************************************************)

\* the threads that may be inside sever::<true> at once
Severers == 1..(MaxThreads + 1)

\* Soul::new and pin for Soul 1; Soul 2 was dropped (its counter severed)
InitSeverers ==
    /\ NoSlot
    /\ NoRaw
    /\ NoPairs
    /\ NoRitual
    /\ NoOrdering
    /\ NoCounting
    /\ count = [s \in Souls |-> IF s = 1 THEN 0 ELSE U32MAX]
    /\ soul = [s \in Souls |-> IF s = 1 THEN "alive" ELSE "dropped"]
    /\ lichPc = [l \in Liches |-> "none"]
    /\ lichCount = [l \in Liches |-> 0]
    /\ pc = [t \in Severers |-> "idle"]
    /\ tsoul = [t \in Severers |-> 0]
    /\ tdrop = [t \in Severers |-> FALSE]
    /\ obs = [t \in Severers |-> 0]
    /\ last = NoResult

\* Soul::bind on a Soul that has not been severed
bind_unsevered(s) ==
    /\ count[s] # U32MAX
    /\ bind(s)

NextSeverers ==
    \/ \E s \in Souls : bind_unsevered(s)
    \/ \E l \in Liches : clone(l)
    \/ \E l \in Liches : LichDrop(l)
    \/ \E l \in Liches : LichWake(l)
    \/ \E l \in Liches : deref(l)
    \/ \E s \in Souls : try_sever(s)
    \/ \E t \in Severers, s \in Souls : sever_call(t, s)
    \/ \E t \in Severers, s \in Souls : drop_call(t, s)
    \/ \E t \in Severers : sever_cas(t)
    \/ \E t \in Severers : wait(t)
    \/ \E t \in Severers : spurious_wake(t)

SpecSeverers == InitSeverers /\ [][NextSeverers]_vars

\* as FairSpecAtomic: a thread inside sever and a destructor before its wake_one
\* keep running; a spurious wake-up and the calls of the program are not
\* guaranteed
FairSpecSeverers ==
    /\ SpecSeverers
    /\ \A t \in Severers : WF_vars(sever_cas(t)) /\ WF_vars(wait(t))
    /\ \A l \in Liches : WF_vars(LichWake(l))


(***************************************************************************)
(* The slot strategies: lock.rs (Arc<RwLock<Option<NonNull<T>>>>) and      *)
(* cell.rs (Rc<RefCell<Option<NonNull<T>>>>) over the generic Lich<T, B>   *)
(* and Soul<'a, B> of lib.rs.  One binding made by ritual is modelled.     *)
(* The lock strategy runs its callers concurrently, so a blocking write()  *)
(* takes several steps; the cell strategy is single-threaded, so each call *)
(* is one step.                                                            *)
(***************************************************************************)

\* Guards that may be alive at once per Lich
MaxGuards == 1

Bindings == {"lock", "cell"}

\* the read guards held through the Liches of S: Guards and borrows in flight
RECURSIVE ReadGuards(_)
ReadGuards(S) ==
    IF S = {} THEN 0
    ELSE LET l == CHOOSE x \in S : TRUE
         IN guards[l] + (IF probe[l] THEN 1 ELSE 0) + ReadGuards(S \ {l})

\* the readers of the RwLock (the shared borrows of the RefCell)
Readers == ReadGuards(Liches)

\* some Guard returned by Lich::borrow is alive
GuardAlive == \E l \in Liches : guards[l] > 0

\* mutant of strong_count: the Soul's Weak is counted as a strong reference
strong_count_with_weak ==
    Cardinality({l \in Liches : lich[l] # "none"}) + 1

\* Arc::strong_count: one per Lich, one for a Weak::upgrade held by the Soul
strong_count ==
    Cardinality({l \in Liches : lich[l] # "none"})
        + (IF life \in {"wlock", "locked"} THEN 1 ELSE 0)

\* Arc::weak_count: the Weak of the Soul, until the Soul is consumed
weak_count == IF life \in {"bound", "wlock", "locked"} THEN 1 ELSE 0

\* Soul::is_bound: is_life_bound is Weak::strong_count(&life.0) > 0
is_life_bound == strong_count > 0

\* Lich::is_bound: is_data_bound is Arc::weak_count(&data.0) > 0
is_data_bound == weak_count > 0

\* the write lock is held
WriteLocked == life = "locked" \/ \E l \in Liches : lich[l] = "locked"

\* a caller is blocked in RwLock::write
WriterWaiting == life = "wlock" \/ \E l \in Liches : lich[l] = "wlock"

\* mutant of try_write: the exclusive lock is granted while readers hold it
try_write_ignoring_readers == ~WriteLocked

\* RwLock::try_write / write and RefCell::try_borrow_mut can be granted
try_write == Readers = 0 /\ ~WriteLocked

\* the outcomes of RwLock::try_read (RefCell::try_borrow): refused under a
\* writer; with a writer waiting the lock's policy decides
try_read ==
    IF WriteLocked THEN {FALSE}
    ELSE IF WriterWaiting THEN {TRUE, FALSE}
    ELSE {TRUE}

\* mutant of Option_sever: the slot keeps its pointer
Option_sever_keep(sl) == <<sl, sl>>

\* Sever for Option<T>: take().is_some(); the new slot and the result
Option_sever(sl) == <<FALSE, sl>>

\* mutant of Data_try_sever: any clone tries the write lock
Data_try_sever_any_clone ==
    IF try_write
    THEN <<Option_sever(slot)[1], IF Option_sever(slot)[2] THEN "Some(true)" ELSE "Some(false)">>
    ELSE <<slot, "None">>

\* TrySever for Data<T>: only the last Arc tries the write lock; the new slot
\* and Some(true) / Some(false) / None
Data_try_sever ==
    IF strong_count = 1 /\ try_write
    THEN <<Option_sever(slot)[1], IF Option_sever(slot)[2] THEN "Some(true)" ELSE "Some(false)">>
    ELSE <<slot, "None">>

\* the process has not aborted
Running == binding \in Bindings /\ life # "aborted"

FreeData == {l \in Liches : lich[l] = "none"}

NewData == CHOOSE l \in FreeData : \A m \in FreeData : l <= m

\* where a dropped Lich goes: the cell call is one step, the lock releases
\* its Arc in a later step
Dropped == IF binding = "cell" THEN "none" ELSE "release"

\* ritual: one Lich and its Soul, the slot filled
InitSlot ==
    /\ NoAtomic
    /\ NoRaw
    /\ NoPairs
    /\ NoRitual
    /\ NoOrdering
    /\ NoCounting
    /\ last = NoResult
    /\ binding \in Bindings
    /\ slot = TRUE
    /\ lich = [l \in Liches |-> IF l = 1 THEN "live" ELSE "none"]
    /\ guards = [l \in Liches |-> 0]
    /\ probe = [l \in Liches |-> FALSE]
    /\ life = "bound"
    /\ lifeOp = "none"
    /\ lichSevering = FALSE
    /\ forcedDone = FALSE

\* Clone for Lich: Data::clone, one more Arc
Data_clone(l) ==
    /\ Running
    /\ lich[l] = "live"
    /\ FreeData # {}
    /\ lich' = [lich EXCEPT ![NewData] = "live"]
    /\ last' = Result("clone", 0, l, TRUE, 0)
    /\ UNCHANGED <<binding, slot, guards, probe, life, lifeOp, lichSevering, forcedDone>>
    /\ UNCHANGED notSlot

\* Lich::borrow: try_read, then Some(Guard) if the slot is Some.  On an empty
\* slot the lock's read guard is released when the call returns.
borrow(l) ==
    /\ Running
    /\ lich[l] = "live"
    /\ ~probe[l]
    /\ \E r \in try_read :
        IF r /\ slot
        THEN /\ guards[l] < MaxGuards
             /\ guards' = [guards EXCEPT ![l] = @ + 1]
             /\ last' = Result("borrow", 0, l, TRUE, 0)
             /\ UNCHANGED probe
        ELSE /\ probe' = [probe EXCEPT ![l] = r /\ binding = "lock"]
             /\ last' = Result("borrow", 0, l, FALSE, 0)
             /\ UNCHANGED guards
    /\ UNCHANGED <<binding, slot, lich, life, lifeOp, lichSevering, forcedDone>>
    /\ UNCHANGED notSlot

\* the None branch of Lich::borrow returns: the read guard is dropped
borrow_return(l) ==
    /\ Running
    /\ probe[l]
    /\ probe' = [probe EXCEPT ![l] = FALSE]
    /\ last' = Result("borrow_return", 0, l, TRUE, 0)
    /\ UNCHANGED <<binding, slot, lich, guards, life, lifeOp, lichSevering, forcedDone>>
    /\ UNCHANGED notSlot

\* a Guard is dropped: the read lock is released
Guard_drop(l) ==
    /\ Running
    /\ guards[l] > 0
    /\ guards' = [guards EXCEPT ![l] = @ - 1]
    /\ last' = Result("guard_drop", 0, l, TRUE, 0)
    /\ UNCHANGED <<binding, slot, lich, probe, life, lifeOp, lichSevering, forcedDone>>
    /\ UNCHANGED notSlot

\* a faulty Drop for Lich: the slot is taken whatever other clones exist
Data_drop_always_severs(l) ==
    /\ Running
    /\ lich[l] = "live"
    /\ guards[l] = 0 /\ ~probe[l]
    /\ slot' = IF try_write THEN Option_sever(slot)[1] ELSE slot
    /\ lich' = [lich EXCEPT ![l] = Dropped]
    /\ last' = Result("lich_drop", 0, l, TRUE, 0)
    /\ UNCHANGED <<binding, guards, probe, life, lifeOp, lichSevering, forcedDone>>
    /\ UNCHANGED notSlot

\* Drop for Lich: Data::try_sever, then the Arc is released.  A Guard borrows
\* its Lich, so the Lich has none.
Data_drop(l) ==
    /\ Running
    /\ lich[l] = "live"
    /\ guards[l] = 0 /\ ~probe[l]
    /\ slot' = Data_try_sever[1]
    /\ lich' = [lich EXCEPT ![l] = Dropped]
    /\ last' = Result("lich_drop", 0, l, TRUE, 0)
    /\ UNCHANGED <<binding, guards, probe, life, lifeOp, lichSevering, forcedDone>>
    /\ UNCHANGED notSlot

\* the Arc of a dropped Lich is released
Arc_release(l) ==
    /\ Running
    /\ lich[l] = "release"
    /\ lich' = [lich EXCEPT ![l] = "none"]
    /\ last' = Result("release", 0, l, TRUE, 0)
    /\ UNCHANGED <<binding, slot, guards, probe, life, lifeOp, lichSevering, forcedDone>>
    /\ UNCHANGED notSlot

\* a faulty Lich::try_sever: it gives the Lich back whatever the slot holds
Lich_try_sever_declines(l) ==
    /\ Running
    /\ lich[l] = "live"
    /\ guards[l] = 0 /\ ~probe[l]
    /\ last' = Result("lich_try_sever", 0, l, FALSE, 0)
    /\ UNCHANGED <<slot, lich>>
    /\ UNCHANGED <<binding, guards, probe, life, lifeOp, lichSevering, forcedDone>>
    /\ UNCHANGED notSlot

\* Lich::try_sever: Data::try_sever().ok_or(self); on Ok the Lich is dropped
Lich_try_sever(l) ==
    /\ Running
    /\ lich[l] = "live"
    /\ guards[l] = 0 /\ ~probe[l]
    /\ IF Data_try_sever[2] = "None"
       THEN /\ last' = Result("lich_try_sever", 0, l, FALSE, 0)
            /\ UNCHANGED <<slot, lich>>
       ELSE /\ slot' = Data_try_sever[1]
            /\ lich' = [lich EXCEPT ![l] = Dropped]
            /\ last' = Result("lich_try_sever", 0, l, TRUE,
                              IF Data_try_sever[2] = "Some(true)" THEN 1 ELSE 0)
    /\ UNCHANGED <<binding, guards, probe, life, lifeOp, lichSevering, forcedDone>>
    /\ UNCHANGED notSlot

\* Lich::sever on the lock: Data::sever calls sever(&self.0), which blocks in
\* RwLock::write
Lich_sever_call(l) ==
    /\ Running
    /\ binding = "lock"
    /\ lich[l] = "live"
    /\ guards[l] = 0 /\ ~probe[l]
    /\ lich' = [lich EXCEPT ![l] = "wlock"]
    /\ lichSevering' = TRUE
    /\ last' = Result("lich_sever_call", 0, l, TRUE, 0)
    /\ UNCHANGED <<binding, slot, guards, probe, life, lifeOp, forcedDone>>
    /\ UNCHANGED notSlot

\* RwLock::write of a Lich's sever is granted
Lich_sever_write(l) ==
    /\ Running
    /\ lich[l] = "wlock"
    /\ try_write
    /\ lich' = [lich EXCEPT ![l] = "locked"]
    /\ last' = Result("lich_sever_write", 0, l, TRUE, 0)
    /\ UNCHANGED <<binding, slot, guards, probe, life, lifeOp, lichSevering, forcedDone>>
    /\ UNCHANGED notSlot

\* guard.sever() under the write lock, the lock is released, Lich::sever
\* returns and the Lich is dropped (its try_sever finds the slot empty)
Lich_sever_take(l) ==
    /\ Running
    /\ lich[l] = "locked"
    /\ slot' = Option_sever(slot)[1]
    /\ lich' = [lich EXCEPT ![l] = "release"]
    /\ forcedDone' = TRUE
    /\ last' = Result("lich_sever", 0, l, TRUE, IF Option_sever(slot)[2] THEN 1 ELSE 0)
    /\ UNCHANGED <<binding, guards, probe, life, lifeOp, lichSevering>>
    /\ UNCHANGED notSlot

\* a faulty Lich::sever: the calling Lich goes, the shared slot is kept
cell_Lich_sever_own(l) ==
    /\ Running
    /\ binding = "cell"
    /\ lich[l] = "live"
    /\ guards[l] = 0
    /\ lichSevering' = TRUE
    /\ lich' = [lich EXCEPT ![l] = "none"]
    /\ IF try_write
       THEN /\ forcedDone' = TRUE
            /\ last' = Result("lich_sever", 0, l, TRUE, IF Option_sever(slot)[2] THEN 1 ELSE 0)
            /\ UNCHANGED slot
       ELSE /\ last' = Result("panic", 0, l, FALSE, 0)
            /\ UNCHANGED <<slot, forcedDone>>
    /\ UNCHANGED <<binding, guards, probe, life, lifeOp>>
    /\ UNCHANGED notSlot

\* Lich::sever on the cell: sever(&self.0) is cell.borrow_mut().sever(), which
\* panics while a Guard is alive; the unwinding drops the Lich
cell_Lich_sever(l) ==
    /\ Running
    /\ binding = "cell"
    /\ lich[l] = "live"
    /\ guards[l] = 0
    /\ lichSevering' = TRUE
    /\ lich' = [lich EXCEPT ![l] = "none"]
    /\ IF try_write
       THEN /\ slot' = Option_sever(slot)[1]
            /\ forcedDone' = TRUE
            /\ last' = Result("lich_sever", 0, l, TRUE, IF Option_sever(slot)[2] THEN 1 ELSE 0)
       ELSE /\ last' = Result("panic", 0, l, FALSE, 0)
            /\ UNCHANGED <<slot, forcedDone>>
    /\ UNCHANGED <<binding, guards, probe, life, lifeOp>>
    /\ UNCHANGED notSlot

\* Soul::sever (op = "sever") or Drop for Soul (op = "drop") on the lock:
\* Life::sever upgrades the Weak; without a Lich it returns false, otherwise
\* sever(lock) blocks in RwLock::write
Soul_sever_call(op) ==
    /\ Running
    /\ binding = "lock"
    /\ life = "bound"
    /\ lifeOp' = op
    /\ IF strong_count = 0
       THEN /\ life' = "done"
            /\ forcedDone' = TRUE
            /\ last' = Result(op, 0, 0, TRUE, 0)
       ELSE /\ life' = "wlock"
            /\ last' = Result("soul_sever_call", 0, 0, TRUE, 0)
            /\ UNCHANGED forcedDone
    /\ UNCHANGED <<binding, slot, lich, guards, probe, lichSevering>>
    /\ UNCHANGED notSlot

\* RwLock::write of the Soul's sever is granted
Soul_sever_write ==
    /\ Running
    /\ life = "wlock"
    /\ try_write
    /\ life' = "locked"
    /\ last' = Result("soul_sever_write", 0, 0, TRUE, 0)
    /\ UNCHANGED <<binding, slot, lich, guards, probe, lifeOp, lichSevering, forcedDone>>
    /\ UNCHANGED notSlot

\* mutant of Soul_sever_take: the sever returns and leaves the slot filled
Soul_sever_take_keep ==
    /\ Running
    /\ life = "locked"
    /\ life' = "done"
    /\ forcedDone' = TRUE
    /\ last' = Result(lifeOp, 0, 0, TRUE, 0)
    /\ UNCHANGED <<binding, slot, lich, guards, probe, lifeOp, lichSevering>>
    /\ UNCHANGED notSlot

\* guard.sever() under the write lock; the lock and the upgraded Arc are
\* released.  After Soul::sever the Soul is dropped, and Drop for Soul runs
\* Life::sever once more.
Soul_sever_take ==
    /\ Running
    /\ life = "locked"
    /\ slot' = Option_sever(slot)[1]
    /\ forcedDone' = TRUE
    /\ IF lifeOp = "sever" /\ strong_count > 1
       THEN /\ life' = "wlock"
            /\ lifeOp' = "sever_drop"
       ELSE /\ life' = "done"
            /\ UNCHANGED lifeOp
    /\ last' = Result(lifeOp, 0, 0, TRUE, IF Option_sever(slot)[2] THEN 1 ELSE 0)
    /\ UNCHANGED <<binding, lich, guards, probe, lichSevering>>
    /\ UNCHANGED notSlot

\* a faulty cell sever: borrow_mut that takes the slot whatever is borrowed
cell_Soul_sever_blind(op) ==
    /\ Running
    /\ binding = "cell"
    /\ life = "bound"
    /\ lifeOp' = op
    /\ life' = "done"
    /\ slot' = IF strong_count = 0 THEN slot ELSE Option_sever(slot)[1]
    /\ forcedDone' = TRUE
    /\ last' = Result(op, 0, 0, TRUE,
                      IF strong_count # 0 /\ Option_sever(slot)[2] THEN 1 ELSE 0)
    /\ UNCHANGED <<binding, lich, guards, probe, lichSevering>>
    /\ UNCHANGED notSlot

\* Soul::sever or Drop for Soul on the cell: cell.borrow_mut() panics while a
\* Guard is alive.  The panic of a drop unwinds; the panic of Soul::sever
\* drops the Soul while unwinding, which panics again and aborts.
cell_Soul_sever(op) ==
    /\ Running
    /\ binding = "cell"
    /\ life = "bound"
    /\ lifeOp' = op
    /\ IF strong_count = 0 \/ try_write
       THEN /\ life' = "done"
            /\ slot' = IF strong_count = 0 THEN slot ELSE Option_sever(slot)[1]
            /\ forcedDone' = TRUE
            /\ last' = Result(op, 0, 0, TRUE,
                              IF strong_count # 0 /\ Option_sever(slot)[2] THEN 1 ELSE 0)
       ELSE /\ life' = IF op = "drop" THEN "panicked" ELSE "aborted"
            /\ last' = Result("panic", 0, 0, FALSE, 0)
            /\ UNCHANGED <<slot, forcedDone>>
    /\ UNCHANGED <<binding, lich, guards, probe, lichSevering>>
    /\ UNCHANGED notSlot

\* mutant of Soul_try_sever: the call declines while a Lich is outstanding
Soul_try_sever_unless_lich ==
    /\ Running
    /\ life = "bound"
    /\ IF strong_count = 0
       THEN /\ life' = "done"
            /\ lifeOp' = "try_sever"
            /\ forcedDone' = TRUE
            /\ last' = Result("try_sever", 0, 0, TRUE, 0)
       ELSE /\ last' = Result("try_sever", 0, 0, FALSE, 0)
            /\ UNCHANGED <<life, lifeOp, forcedDone>>
    /\ UNCHANGED <<binding, slot, lich, guards, probe, lichSevering>>
    /\ UNCHANGED notSlot

\* Soul::try_sever: Life::try_sever().ok_or(self).  None gives the Soul back;
\* on Some the Soul is dropped, and Drop for Soul runs Life::sever.
Soul_try_sever ==
    /\ Running
    /\ life = "bound"
    /\ IF strong_count = 0
       THEN /\ life' = "done"
            /\ lifeOp' = "try_sever"
            /\ forcedDone' = TRUE
            /\ last' = Result("try_sever", 0, 0, TRUE, 0)
            /\ UNCHANGED slot
       ELSE IF try_write
       THEN /\ slot' = Option_sever(slot)[1]
            /\ life' = IF binding = "cell" THEN "done" ELSE "wlock"
            /\ lifeOp' = IF binding = "cell" THEN "try_sever" ELSE "try_sever_drop"
            /\ forcedDone' = (forcedDone \/ binding = "cell")
            /\ last' = Result("try_sever", 0, 0, TRUE, IF Option_sever(slot)[2] THEN 1 ELSE 0)
       ELSE /\ last' = Result("try_sever", 0, 0, FALSE, 0)
            /\ UNCHANGED <<slot, life, lifeOp, forcedDone>>
    /\ UNCHANGED <<binding, lich, guards, probe, lichSevering>>
    /\ UNCHANGED notSlot

\* redeem::<_, _, true>: the Lich's Arc is released without Drop for Lich; the
\* Soul comes back while another Lich lives, otherwise its Weak is released
\* without Drop for Soul
crate_redeem(l) ==
    /\ Running
    /\ life = "bound"
    /\ lich[l] = "live"
    /\ guards[l] = 0 /\ ~probe[l]
    /\ lich' = [lich EXCEPT ![l] = "none"]
    /\ IF strong_count > 1
       THEN /\ last' = Result("redeem", 0, l, TRUE, 1)
            /\ UNCHANGED <<life, lifeOp>>
       ELSE /\ life' = "done"
            /\ lifeOp' = "redeem"
            /\ last' = Result("redeem", 0, l, TRUE, 0)
    /\ UNCHANGED <<binding, slot, guards, probe, lichSevering, forcedDone>>
    /\ UNCHANGED notSlot

NextSlot ==
    \/ \E l \in Liches : Data_clone(l)
    \/ \E l \in Liches : borrow(l)
    \/ \E l \in Liches : borrow_return(l)
    \/ \E l \in Liches : Guard_drop(l)
    \/ \E l \in Liches : Data_drop(l)
    \/ \E l \in Liches : Arc_release(l)
    \/ \E l \in Liches : Lich_try_sever(l)
    \/ \E l \in Liches : Lich_sever_call(l)
    \/ \E l \in Liches : Lich_sever_write(l)
    \/ \E l \in Liches : Lich_sever_take(l)
    \/ \E l \in Liches : cell_Lich_sever(l)
    \/ \E op \in {"sever", "drop"} : Soul_sever_call(op)
    \/ Soul_sever_write
    \/ Soul_sever_take
    \/ \E op \in {"sever", "drop"} : cell_Soul_sever(op)
    \/ Soul_try_sever
    \/ \E l \in Liches : crate_redeem(l)

SpecSlot == InitSlot /\ [][NextSlot]_vars

\* A caller that holds a lock or has a return pending keeps running (weak
\* fairness).  A caller blocked in RwLock::write is woken at every unlock and
\* takes the lock if it is free again and again (strong fairness).  Callers
\* are free never to drop a Guard, so Guard_drop has no fairness.
FairSpecSlot ==
    /\ SpecSlot
    /\ SF_vars(Soul_sever_write)
    /\ WF_vars(Soul_sever_take)
    /\ \A l \in Liches : SF_vars(Lich_sever_write(l))
    /\ \A l \in Liches : WF_vars(Lich_sever_take(l))
    /\ \A l \in Liches : WF_vars(borrow_return(l))
    /\ \A l \in Liches : WF_vars(Arc_release(l))

(***************************************************************************)
(* The raw strategy: raw.rs over the generic Lich<T, B> and Soul<'a, B> of *)
(* lib.rs.  Two pairs made by two ritual calls live on one thread; the     *)
(* values they were made from may be the same.  The build either has the   *)
(* feature "std" or not.                                                   *)
(***************************************************************************)

\* addresses of the values given to ritual
Addrs == {1, 2}

\* the process has not aborted on a panic raised while unwinding
RawRunning == last.op # "abort"

\* what the thread is doing, as recorded at a disposal
Mood == IF panicking THEN "unwinding" ELSE "calm"

\* sever_panic: with std, false while the thread is panicking; without std,
\* false once the static PANIC was set by an earlier call; otherwise a panic
sever_panic ==
    IF std
    THEN (IF panicking THEN "false" ELSE "panic")
    ELSE (IF PANIC THEN "false" ELSE "panic")

\* mutant of are_bound: the Lich and the Soul are of the same ritual
are_bound_same_ritual(p, q) == p = q

\* Raw::are_bound: the address in the Data is the address in the Life
are_bound(p, q) == addr[p] = addr[q]

\* ritual, twice: two pairs, from the same value or from two values
InitRaw ==
    /\ NoAtomic
    /\ NoSlot
    /\ NoPairs
    /\ NoRitual
    /\ NoOrdering
    /\ NoCounting
    /\ last = NoResult
    /\ std \in BOOLEAN
    /\ PANIC = FALSE
    /\ panicking = FALSE
    /\ rlich = [p \in Pairs |-> "live"]
    /\ rsoul = [p \in Pairs |-> "live"]
    /\ addr \in [Pairs -> Addrs]
    /\ raised = [p \in Pairs |-> 0]
    /\ pre = [p \in Pairs |-> <<>>]

\* one half of pair p is disposed of by a call that ends in sever_panic: the
\* half is gone; a panic raised while the thread unwinds aborts the process.
\* A call that panics drops the half while unwinding, where sever_panic
\* returns false.
Dispose(p, op) ==
    /\ PANIC' = (PANIC \/ ~std)
    /\ panicking' = (panicking \/ sever_panic = "panic")
    /\ raised' = [raised EXCEPT ![p] = IF sever_panic = "panic" THEN @ + 1 ELSE @]
    /\ pre' = [pre EXCEPT ![p] = Append(@, Mood)]
    /\ last' = IF sever_panic = "panic" /\ panicking
               THEN Result("abort", 0, 0, FALSE, 0)
               ELSE Result(op, p, p, sever_panic # "panic", 0)
    /\ UNCHANGED <<std, addr>>
    /\ UNCHANGED notRaw

\* Drop for Lich (op = "drop"): Data::try_sever is Some(sever_panic());
\* Lich::try_sever (op = "try_sever"): the same call, then the Lich is dropped
raw_Lich_dispose(p, op) ==
    /\ RawRunning
    /\ rlich[p] = "live"
    /\ rlich' = [rlich EXCEPT ![p] = "gone"]
    /\ UNCHANGED rsoul
    /\ Dispose(p, op)

\* Drop for Soul (op = "drop"): Life::sever is sever_panic(); Soul::sever
\* (op = "sever"): the same call, then the Soul is dropped
raw_Soul_dispose(p, op) ==
    /\ RawRunning
    /\ rsoul[p] = "live"
    /\ rsoul' = [rsoul EXCEPT ![p] = "gone"]
    /\ UNCHANGED rlich
    /\ Dispose(p, op)

\* raw::redeem of the Lich of pair p with the Soul of pair q:
\* redeem::<_, _, false>; bound halves are released without their Drop,
\* otherwise Err gives both back
raw_redeem(p, q) ==
    /\ RawRunning
    /\ rlich[p] = "live"
    /\ rsoul[q] = "live"
    /\ IF are_bound(p, q)
       THEN /\ rlich' = [rlich EXCEPT ![p] = "gone"]
            /\ rsoul' = [rsoul EXCEPT ![q] = "gone"]
            /\ last' = Result("redeem", q, p, TRUE, 0)
       ELSE /\ last' = Result("redeem", q, p, FALSE, 0)
            /\ UNCHANGED <<rlich, rsoul>>
    /\ UNCHANGED <<std, PANIC, panicking, addr, raised, pre>>
    /\ UNCHANGED notRaw

\* a panic of the program that is not raised by the library
user_panic ==
    /\ RawRunning
    /\ ~panicking
    /\ panicking' = TRUE
    /\ last' = Result("user_panic", 0, 0, TRUE, 0)
    /\ UNCHANGED <<std, PANIC, rlich, rsoul, addr, raised, pre>>
    /\ UNCHANGED notRaw

\* the unwinding ends (catch_unwind, or the test harness takes the panic)
catch_unwind ==
    /\ RawRunning
    /\ panicking
    /\ panicking' = FALSE
    /\ pre' = [p \in Pairs |-> IF Len(pre[p]) = 1 THEN Append(pre[p], "caught") ELSE pre[p]]
    /\ last' = Result("catch_unwind", 0, 0, TRUE, 0)
    /\ UNCHANGED <<std, PANIC, rlich, rsoul, addr, raised>>
    /\ UNCHANGED notRaw

NextRaw ==
    \/ \E p \in Pairs, op \in {"drop", "try_sever"} : raw_Lich_dispose(p, op)
    \/ \E p \in Pairs, op \in {"drop", "sever"} : raw_Soul_dispose(p, op)
    \/ \E p \in Pairs, q \in Pairs : raw_redeem(p, q)
    \/ user_panic
    \/ catch_unwind

SpecRaw == InitRaw /\ [][NextRaw]_vars

(***************************************************************************)
(* redeem over two rituals.  Two rituals of one strategy are made and      *)
(* their Liches are cloned, dropped and redeemed against either Soul, one  *)
(* call at a time and with no Guard alive.  The strategies are             *)
(*   "rc"       lock.rs and cell.rs over redeem::<_, _, true> of lib.rs,   *)
(*   "atomic"   atomic.rs (ritual on a u32 location) over the same redeem, *)
(*   "pointer"  the pointer-owning cell.rs with its own redeem.            *)
(***************************************************************************)

Kinds == {"rc", "atomic", "pointer"}

\* the Liches of ritual r
ClonesOf(r) == {l \in PLiches : plich[l] = r}

FreePLiches == {l \in PLiches : plich[l] = 0}

NewPLich == CHOOSE l \in FreePLiches : \A m \in FreePLiches : l <= m

\* mutant of p_are_bound: any Lich is bound to any Soul
p_are_bound_any(l, r) == plich[l] # 0

\* are_bound: the Arc (Rc) of the Lich is the one of the Soul's Weak; for
\* "atomic" the counter of the Lich is the one of the Soul
p_are_bound(l, r) == plich[l] = r

\* mutant of p_is_life_bound: the Soul is never given back
p_is_life_bound_never(r, gone) == FALSE

\* is_life_bound once the Lich gone has been released: Weak::strong_count > 0;
\* for "atomic" the counter is above 0
p_is_life_bound(r, gone) ==
    IF kind = "atomic"
    THEN pcount[r] - 1 > 0 /\ pcount[r] - 1 < U32MAX
    ELSE ClonesOf(r) \ {gone} # {}

\* ritual, twice
InitPairs ==
    /\ NoAtomic
    /\ NoSlot
    /\ NoRaw
    /\ NoRitual
    /\ NoOrdering
    /\ NoCounting
    /\ last = NoResult
    /\ kind \in Kinds
    /\ pslot = [r \in Pairs |-> TRUE]
    /\ psoul = [r \in Pairs |-> "alive"]
    /\ plich = [l \in PLiches |-> IF l \in Pairs THEN l ELSE 0]
    /\ pcount = [r \in Pairs |-> IF kind = "atomic" THEN 1 ELSE 0]

\* Clone for Lich: one more Arc (Rc); for "atomic" fetch_add(1)
p_clone(l) ==
    /\ kind \in Kinds
    /\ plich[l] # 0
    /\ FreePLiches # {}
    /\ plich' = [plich EXCEPT ![NewPLich] = plich[l]]
    /\ pcount' = [pcount EXCEPT ![plich[l]] = IF kind = "atomic" THEN @ + 1 ELSE @]
    /\ last' = Result("clone", plich[l], l, TRUE, 0)
    /\ UNCHANGED <<kind, pslot, psoul>>
    /\ UNCHANGED notPairs

\* what the drop of Lich l leaves in the slots.  "rc": Data::try_sever clears
\* the slot if the strong count is 1.  "pointer": Drop for Lich calls
\* try_sever(&self.0), whatever the strong count.  "atomic": Data::try_sever
\* is None.
SlotsAfterDrop(l) ==
    [r \in Pairs |->
        IF r = plich[l] /\ (kind = "pointer" \/ (kind = "rc" /\ ClonesOf(r) = {l}))
        THEN FALSE ELSE pslot[r]]

\* Drop for Lich, then the Data is released: the Arc (Rc), or fetch_sub(1)
p_drop(l) ==
    /\ kind \in Kinds
    /\ plich[l] # 0
    /\ pslot' = SlotsAfterDrop(l)
    /\ plich' = [plich EXCEPT ![l] = 0]
    /\ pcount' = [pcount EXCEPT ![plich[l]] = IF kind = "atomic" THEN @ - 1 ELSE @]
    /\ last' = Result("lich_drop", plich[l], l, TRUE, 0)
    /\ UNCHANGED <<kind, psoul>>
    /\ UNCHANGED notPairs

\* redeem::<_, _, true> of lib.rs ("rc", "atomic"): bound halves release the
\* Data without Drop for Lich; the Soul comes back in Ok(Some) while it is
\* bound, otherwise its Life is released without Drop for Soul and the result
\* is Ok(None); halves that are not bound come back in Err
crate_redeem_pair(l, r) ==
    /\ kind \in {"rc", "atomic"}
    /\ plich[l] # 0
    /\ psoul[r] = "alive"
    /\ IF p_are_bound(l, r)
       THEN /\ plich' = [plich EXCEPT ![l] = 0]
            /\ pcount' = [pcount EXCEPT ![r] = IF kind = "atomic" THEN @ - 1 ELSE @]
            /\ psoul' = [psoul EXCEPT ![r] = IF p_is_life_bound(r, l) THEN @ ELSE "gone"]
            /\ last' = Result("redeem", r, l, TRUE, IF p_is_life_bound(r, l) THEN 1 ELSE 0)
       ELSE /\ last' = Result("redeem", r, l, FALSE, 0)
            /\ UNCHANGED <<plich, pcount, psoul>>
    /\ UNCHANGED <<kind, pslot>>
    /\ UNCHANGED notPairs

\* redeem of the pointer-owning cell.rs, which returns Result<P, Soul<P>>:
\* bound halves release the Rc without Drop for Lich, then Err(soul) while
\* the Soul is bound and Ok(soul.sever()) otherwise; halves that are not
\* bound give Err(soul), and the Lich, which goes nowhere, is dropped
pointer_redeem(l, r) ==
    /\ kind = "pointer"
    /\ plich[l] # 0
    /\ psoul[r] = "alive"
    /\ plich' = [plich EXCEPT ![l] = 0]
    /\ IF p_are_bound(l, r)
       THEN /\ psoul' = [psoul EXCEPT ![r] = IF p_is_life_bound(r, l) THEN @ ELSE "gone"]
            /\ last' = Result("redeem", r, l, ~p_is_life_bound(r, l), 0)
            /\ UNCHANGED pslot
       ELSE /\ pslot' = SlotsAfterDrop(l)
            /\ last' = Result("redeem", r, l, FALSE, 0)
            /\ UNCHANGED psoul
    /\ UNCHANGED <<kind, pcount>>
    /\ UNCHANGED notPairs

\* Soul::sever or Drop for Soul: the slot is cleared if a Lich is left to
\* upgrade the Weak; for "atomic" the sever waits for the counter to be 0 and
\* sets it to u32::MAX
p_Soul_sever(r) ==
    /\ kind \in Kinds
    /\ psoul[r] = "alive"
    /\ kind = "atomic" => pcount[r] = 0
    /\ psoul' = [psoul EXCEPT ![r] = "gone"]
    /\ pslot' = [pslot EXCEPT ![r] = IF kind # "atomic" /\ ClonesOf(r) # {} THEN FALSE ELSE @]
    /\ pcount' = [pcount EXCEPT ![r] = IF kind = "atomic" THEN U32MAX ELSE @]
    /\ last' = Result("sever", r, 0, TRUE, IF kind # "atomic" /\ ClonesOf(r) # {} /\ pslot[r] THEN 1 ELSE 0)
    /\ UNCHANGED <<kind, plich>>
    /\ UNCHANGED notPairs

\* Lich::sever ("rc", "pointer"): the slot is cleared, the Lich is dropped
p_Lich_sever(l) ==
    /\ kind \in {"rc", "pointer"}
    /\ plich[l] # 0
    /\ pslot' = [pslot EXCEPT ![plich[l]] = FALSE]
    /\ plich' = [plich EXCEPT ![l] = 0]
    /\ last' = Result("lich_sever", plich[l], l, TRUE, IF pslot[plich[l]] THEN 1 ELSE 0)
    /\ UNCHANGED <<kind, psoul, pcount>>
    /\ UNCHANGED notPairs

NextPairs ==
    \/ \E l \in PLiches : p_clone(l)
    \/ \E l \in PLiches : p_drop(l)
    \/ \E l \in PLiches, r \in Pairs : crate_redeem_pair(l, r)
    \/ \E l \in PLiches, r \in Pairs : pointer_redeem(l, r)
    \/ \E r \in Pairs : p_Soul_sever(r)
    \/ \E l \in PLiches : p_Lich_sever(l)

SpecPairs == InitPairs /\ [][NextPairs]_vars

(* ------------------------------------------------------------------------ *)
(* The ritual over a u32 location (atomic.rs with lib.rs)                   *)
(* ------------------------------------------------------------------------ *)

ALive == {l \in ALiches : alich[l] = "live"}

FreeALiches == {l \in ALiches : alich[l] = "none"}

\* the identity given to the next clone
NewALich == CHOOSE l \in FreeALiches : \A m \in FreeALiches : l <= m

\* bound: 0 < count < u32::MAX
bound(c) == c > 0 /\ c < U32MAX

\* one turn of the loop of sever::<WAIT>: compare_exchange(0, u32::MAX)
\* returns <<new counter, "true" | "false" | "wait" | "none">>
atomic_sever(c, WAIT) ==
    IF c = 0 THEN <<U32MAX, "true">>
    ELSE IF c = U32MAX THEN <<c, "false">>
    ELSE IF WAIT THEN <<c, "wait">>
    ELSE <<c, "none">>

\* ritual: *location = 1, one Lich and one Soul over the location
InitRitual ==
    /\ NoAtomic
    /\ NoSlot
    /\ NoRaw
    /\ NoPairs
    /\ NoOrdering
    /\ NoCounting
    /\ last = NoResult
    /\ location = 1
    /\ alich = [l \in ALiches |-> IF l = 1 THEN "live" ELSE "none"]
    /\ asoul = "alive"
    /\ aseen = 0
    /\ aop = "none"
    /\ aret = "none"

\* Clone for Data: fetch_add(1, Relaxed), then a copy of both pointers
atomic_clone(l) ==
    /\ alich[l] = "live"
    /\ FreeALiches # {}
    /\ location' = wrapping_add(location, 1)
    /\ alich' = [alich EXCEPT ![NewALich] = "live"]
    /\ last' = Result("clone", 0, l, TRUE, 0)
    /\ UNCHANGED <<asoul, aseen, aop, aret>>
    /\ UNCHANGED notRitual

\* Drop for Lich: Data::try_sever is None; then Drop for Data, first half:
\* fetch_sub(1, Release), and wake_one is due if the old value was 1
atomic_Lich_drop(l) ==
    /\ alich[l] = "live"
    /\ location' = wrapping_sub(location, 1)
    /\ alich' = [alich EXCEPT ![l] = IF location = 1 THEN "wake" ELSE "none"]
    /\ last' = Result("lich_drop", 0, l, TRUE, 0)
    /\ UNCHANGED <<asoul, aseen, aop, aret>>
    /\ UNCHANGED notRitual

\* Drop for Data, second half: wake_one(atomic) resumes the sleeping sever
atomic_wake_one(l) ==
    /\ alich[l] = "wake"
    /\ alich' = [alich EXCEPT ![l] = "none"]
    /\ asoul' = IF asoul = "asleep" THEN "cas" ELSE asoul
    /\ last' = Result("wake_one", 0, l, TRUE, 0)
    /\ UNCHANGED <<location, aseen, aop, aret>>
    /\ UNCHANGED notRitual

\* redeem::<_, _, true>, first half: are_bound holds (one location), and
\* drop_in_place(&mut lich.0) runs Drop for Data; its wake_one finds no
\* sleeper, the Soul being the argument of this call
atomic_redeem(l) ==
    /\ asoul = "alive"
    /\ alich[l] = "live"
    /\ location' = wrapping_sub(location, 1)
    /\ alich' = [alich EXCEPT ![l] = "none"]
    /\ asoul' = "redeem"
    /\ last' = NoResult
    /\ UNCHANGED <<aseen, aop, aret>>
    /\ UNCHANGED notRitual

\* redeem, second half: Ok(Some(soul)) while is_life_bound, otherwise the Life
\* is dropped in place (no Drop for Soul) and Ok(None)
atomic_redeem_bound ==
    /\ asoul = "redeem"
    /\ IF bound(location)
       THEN /\ asoul' = "alive"
            /\ last' = Result("redeem", 0, 0, TRUE, 1)
            /\ UNCHANGED aop
       ELSE /\ asoul' = "done"
            /\ aop' = "redeem"
            /\ last' = Result("redeem", 0, 0, TRUE, 0)
    /\ UNCHANGED <<location, alich, aseen, aret>>
    /\ UNCHANGED notRitual

\* Soul::sever (op = "sever") or Drop for Soul (op = "drop"): Life::sever
\* enters sever::<true>
atomic_Soul_call(op) ==
    /\ asoul = "alive"
    /\ asoul' = "cas"
    /\ aop' = op
    /\ last' = NoResult
    /\ UNCHANGED <<location, alich, aseen, aret>>
    /\ UNCHANGED notRitual

\* Soul::try_sever: sever::<false>(count).ok_or(self); on Some the Soul is
\* dropped and Drop for Soul enters sever::<true>
atomic_try_sever ==
    /\ asoul = "alive"
    /\ LET r == atomic_sever(location, FALSE)
       IN /\ location' = r[1]
          /\ IF r[2] = "none"
             THEN /\ last' = Result("try_sever", 0, 0, FALSE, 0)
                  /\ UNCHANGED <<asoul, aop>>
             ELSE /\ asoul' = "cas"
                  /\ aop' = "try_sever_drop"
                  /\ last' = Result("try_sever", 0, 0, TRUE, IF r[2] = "true" THEN 1 ELSE 0)
    /\ UNCHANGED <<alich, aseen, aret>>
    /\ UNCHANGED notRitual

\* a faulty wait: sleeps without comparing the counter with the value
atomic_wait_blind ==
    /\ asoul = "wait"
    /\ asoul' = "asleep"
    /\ aseen' = 0
    /\ last' = NoResult
    /\ UNCHANGED <<location, alich, aop, aret>>
    /\ UNCHANGED notRitual

\* atomic_wait::wait(count, value): sleeps only if the counter still holds value
atomic_wait ==
    /\ asoul = "wait"
    /\ asoul' = IF location = aseen THEN "asleep" ELSE "cas"
    /\ aseen' = 0
    /\ last' = NoResult
    /\ UNCHANGED <<location, alich, aop, aret>>
    /\ UNCHANGED notRitual

\* atomic_wait::wait may return spuriously, without a wake
atomic_spurious_wake ==
    /\ asoul = "asleep"
    /\ asoul' = "cas"
    /\ last' = NoResult
    /\ UNCHANGED <<location, alich, aseen, aop, aret>>
    /\ UNCHANGED notRitual

\* one turn of sever::<true>.  When it breaks, Life::sever returns
\* is_some_and(|value| value); after Soul::sever the Soul is dropped, and
\* Drop for Soul enters sever::<true> once more
atomic_sever_turn ==
    /\ asoul = "cas"
    /\ LET r == atomic_sever(location, TRUE)
       IN /\ location' = r[1]
          /\ IF r[2] = "wait"
             THEN /\ asoul' = "wait"
                  /\ aseen' = location
                  /\ last' = NoResult
                  /\ UNCHANGED <<aop, aret>>
             ELSE /\ aseen' = 0
                  /\ IF aop = "sever"
                     THEN /\ asoul' = "cas"
                          /\ aop' = "sever_drop"
                          /\ aret' = r[2]
                     ELSE /\ asoul' = "done"
                          /\ UNCHANGED <<aop, aret>>
                  /\ last' = Result(aop, 0, 0, TRUE, IF r[2] = "true" THEN 1 ELSE 0)
    /\ UNCHANGED alich
    /\ UNCHANGED notRitual

NextRitual ==
    \/ \E l \in ALiches : atomic_clone(l)
    \/ \E l \in ALiches : atomic_Lich_drop(l)
    \/ \E l \in ALiches : atomic_wake_one(l)
    \/ \E l \in ALiches : atomic_redeem(l)
    \/ atomic_redeem_bound
    \/ \E op \in {"sever", "drop"} : atomic_Soul_call(op)
    \/ atomic_try_sever
    \/ atomic_sever_turn
    \/ atomic_wait
    \/ atomic_spurious_wake

SpecRitual == InitRitual /\ [][NextRitual]_vars

\* every thread that is inside a call goes on running: the severing thread
\* takes its next turn, a destructor past its fetch_sub reaches wake_one
FairSpecRitual ==
    /\ SpecRitual
    /\ WF_vars(atomic_sever_turn)
    /\ WF_vars(atomic_wait)
    /\ WF_vars(atomic_redeem_bound)
    /\ \A l \in ALiches : WF_vars(atomic_wake_one(l))

(* ------------------------------------------------------------------------ *)
(* Memory orderings on the counter (soul.rs, lich.rs and atomic.rs)         *)
(*                                                                          *)
(* Each Lich lives on a thread of its own and reads the value through its   *)
(* pointer.  Every operation on the counter is a read-modify-write, so a    *)
(* release sequence headed by a release operation runs on through all the   *)
(* later ones: rel holds the reads that some release on the counter carries.*)
(* An acquire that reads the counter synchronizes with every such release.  *)
(* ------------------------------------------------------------------------ *)

OKinds == {"soul", "ritual"}

\* the ordering of the fetch_sub of a Lich's destructor
decrement_ordering == IF okind = "ritual" THEN "Release" ELSE "Relaxed"

\* the ordering of the fetch_sub of redeem: Soul::redeem's own fetch_sub, or
\* Drop for Data run by drop_in_place
redeem_ordering == IF okind = "ritual" THEN "Release" ELSE "Relaxed"

\* the success ordering of sever's compare_exchange(0, u32::MAX)
sever_ordering == "Acquire"

is_release(o) == o \in {"Release", "AcqRel", "SeqCst"}

is_acquire(o) == o \in {"Acquire", "AcqRel", "SeqCst"}

FreeOLiches == {l \in OLiches : olich[l] = "none"}

NewOLich == CHOOSE l \in FreeOLiches : \A m \in FreeOLiches : l <= m

\* Soul::new and pin (the counter at 0), or ritual (the location at 1 and the
\* first Lich)
InitOrdering ==
    /\ NoAtomic
    /\ NoSlot
    /\ NoRaw
    /\ NoPairs
    /\ NoRitual
    /\ NoCounting
    /\ last = NoResult
    /\ okind \in OKinds
    /\ ocount = IF okind = "ritual" THEN 1 ELSE 0
    /\ olich = [l \in OLiches |-> IF okind = "ritual" /\ l = 1 THEN "live" ELSE "none"]
    /\ acc = {}
    /\ rel = {}
    /\ hb = {}
    /\ osoul = "alive"

\* Soul::bind: fetch_add(1, Relaxed) and a new Lich, handed to its thread
o_bind ==
    /\ okind = "soul"
    /\ osoul = "alive"
    /\ FreeOLiches # {}
    /\ ocount' = ocount + 1
    /\ olich' = [olich EXCEPT ![NewOLich] = "live"]
    /\ last' = Result("bind", 0, NewOLich, TRUE, 0)
    /\ UNCHANGED <<okind, acc, rel, hb, osoul>>
    /\ UNCHANGED notOrdering

\* Clone for Lich / Clone for Data: one more Lich, handed to its thread
o_clone(l) ==
    /\ olich[l] = "live"
    /\ FreeOLiches # {}
    /\ ocount' = ocount + 1
    /\ olich' = [olich EXCEPT ![NewOLich] = "live"]
    /\ last' = Result("clone", 0, NewOLich, TRUE, 0)
    /\ UNCHANGED <<okind, acc, rel, hb, osoul>>
    /\ UNCHANGED notOrdering

\* Deref for Lich / Lich::borrow: the Lich's thread reads the value
o_deref(l) ==
    /\ olich[l] = "live"
    /\ acc' = acc \cup {l}
    /\ last' = Result("deref", 0, l, TRUE, 0)
    /\ UNCHANGED <<okind, ocount, olich, rel, hb, osoul>>
    /\ UNCHANGED notOrdering

\* fetch_sub(1, o) by the thread of Lich l: a release carries the reads made
\* through l
o_decrement(l, o) ==
    /\ ocount' = ocount - 1
    /\ rel' = IF is_release(o) THEN rel \cup ({l} \cap acc) ELSE rel

\* Drop for Lich on the Lich's thread
o_drop(l) ==
    /\ olich[l] = "live"
    /\ o_decrement(l, decrement_ordering)
    /\ olich' = [olich EXCEPT ![l] = "gone"]
    /\ last' = Result("lich_drop", 0, l, TRUE, 0)
    /\ UNCHANGED <<okind, acc, hb, osoul>>
    /\ UNCHANGED notOrdering

\* redeem of Lich l, called on the Lich's thread through a shared Soul
o_redeem(l) ==
    /\ olich[l] = "live"
    /\ osoul = "alive"
    /\ o_decrement(l, redeem_ordering)
    /\ olich' = [olich EXCEPT ![l] = "gone"]
    /\ last' = Result("redeem", 0, l, TRUE, 0)
    /\ UNCHANGED <<okind, acc, hb, osoul>>
    /\ UNCHANGED notOrdering

\* the turn of the forcing sever whose compare_exchange(0, u32::MAX) succeeds
o_sever ==
    /\ osoul = "alive"
    /\ ocount = 0
    /\ ocount' = U32MAX
    /\ osoul' = "severed"
    /\ hb' = IF is_acquire(sever_ordering) THEN rel ELSE {}
    /\ last' = Result("sever", 0, 0, TRUE, 1)
    /\ UNCHANGED <<okind, olich, acc, rel>>
    /\ UNCHANGED notOrdering

NextOrdering ==
    \/ o_bind
    \/ \E l \in OLiches : o_clone(l)
    \/ \E l \in OLiches : o_deref(l)
    \/ \E l \in OLiches : o_drop(l)
    \/ \E l \in OLiches : o_redeem(l)
    \/ o_sever

SpecOrdering == InitOrdering /\ [][NextOrdering]_vars

(***************************************************************************)
(* The counting raw strategy: Soul(usize, P) and Lich(NonNull<T>) of       *)
(* phylactery/src/raw.rs.  Two Souls live on one thread; their pointers    *)
(* may have the same address.  The build checks integer overflow or wraps, *)
(* and has the feature "std" or not.                                       *)
(***************************************************************************)

\* usize::MAX, scaled as the u32 of the counter strategy
USIZE_MAX == 2^CounterBits - 1

\* the process has not aborted on a panic raised while unwinding
CRunning == ~caborted

\* Soul::is_bound: self.0 > 0
c_is_bound(s) == cbind[s] > 0

\* Soul::bindings: self.0
c_bindings(s) == cbind[s]

\* usize::checked_sub(1): -1 stands for None
checked_sub(a) == IF a >= 1 THEN a - 1 ELSE -1

\* ptr::addr_eq(self.1.pointer(), lich.0.as_ptr())
c_addr_eq(s, l) == cptr[s] = cptr[clich[l]]

\* panic(): with std, false while the thread is panicking; without std, false
\* once the static PANIC was set by an earlier call; otherwise a panic
c_panic ==
    IF cstd
    THEN (IF cpanicking THEN "false" ELSE "panic")
    ELSE (IF cPANIC THEN "false" ELSE "panic")

FreeCLiches == {l \in CLiches : clich[l] = 0}

NewCLich == CHOOSE l \in FreeCLiches : \A m \in FreeCLiches : l <= m

\* Soul::new, twice, over the same pointer or over two
InitCounting ==
    /\ NoAtomic
    /\ NoSlot
    /\ NoRaw
    /\ NoPairs
    /\ NoRitual
    /\ NoOrdering
    /\ last = NoResult
    /\ cchecks \in BOOLEAN
    /\ cstd \in BOOLEAN
    /\ cPANIC = FALSE
    /\ cpanicking = FALSE
    /\ caborted = FALSE
    /\ cbind = [s \in CSouls |-> 0]
    /\ cown = [s \in CSouls |-> "live"]
    /\ cptr \in {f \in [CSouls -> Addrs] : f[1] = 1}
    /\ clich = [l \in CLiches |-> 0]

\* a panic is raised by the call op: the thread starts to unwind, or the
\* process aborts when it already unwinds
c_raise(op, s, l) ==
    /\ cpanicking' = TRUE
    /\ caborted' = cpanicking
    /\ last' = Result(op, s, l, FALSE, 0)

\* a call of panic() made by the call op
c_panic_call(op, s, l) ==
    /\ cPANIC' = (cPANIC \/ ~cstd)
    /\ IF c_panic = "panic"
       THEN c_raise(op, s, l)
       ELSE /\ last' = Result(op, s, l, TRUE, 0)
            /\ UNCHANGED <<cpanicking, caborted>>

\* Soul::bind: self.0 += 1, then the Lich over self.1.pointer(); the addition
\* at usize::MAX panics in a build that checks overflow and wraps otherwise
c_bind(s) ==
    /\ CRunning
    /\ cown[s] = "live"
    /\ FreeCLiches # {}
    /\ IF cbind[s] = USIZE_MAX /\ cchecks
       THEN /\ c_raise("bind", s, 0)
            /\ UNCHANGED <<cbind, clich>>
       ELSE /\ cbind' = [cbind EXCEPT ![s] = (@ + 1) % (USIZE_MAX + 1)]
            /\ clich' = [clich EXCEPT ![NewCLich] = s]
            /\ last' = Result("bind", s, NewCLich, TRUE, 0)
            /\ UNCHANGED <<cpanicking, caborted>>
    /\ UNCHANGED <<cchecks, cstd, cPANIC, cown, cptr>>
    /\ UNCHANGED notCounting

\* mem::forget of a Lich by the program: no destructor runs
c_forget(l) ==
    /\ CRunning
    /\ clich[l] # 0
    /\ clich' = [clich EXCEPT ![l] = 0]
    /\ last' = Result("forget", 0, l, TRUE, 0)
    /\ UNCHANGED <<cchecks, cstd, cPANIC, cpanicking, caborted, cbind, cown, cptr>>
    /\ UNCHANGED notCounting

\* Soul::redeem: Err when checked_sub is None or the addresses differ;
\* otherwise the Lich is forgotten, self.0 = bindings, Ok(bindings == 0)
c_redeem(s, l) ==
    /\ CRunning
    /\ cown[s] = "live"
    /\ clich[l] # 0
    /\ IF checked_sub(cbind[s]) # -1 /\ c_addr_eq(s, l)
       THEN /\ clich' = [clich EXCEPT ![l] = 0]
            /\ cbind' = [cbind EXCEPT ![s] = checked_sub(@)]
            /\ last' = Result("redeem", s, l, TRUE, IF checked_sub(cbind[s]) = 0 THEN 1 ELSE 0)
       ELSE /\ last' = Result("redeem", s, l, FALSE, 0)
            /\ UNCHANGED <<cbind, clich>>
    /\ UNCHANGED <<cchecks, cstd, cPANIC, cpanicking, caborted, cown, cptr>>
    /\ UNCHANGED notCounting

\* Soul::try_sever: Err(self) when is_bound; otherwise Ok(self.sever()), which
\* reads the pointer out of a ManuallyDrop, so that no destructor runs
c_try_sever(s) ==
    /\ CRunning
    /\ cown[s] = "live"
    /\ IF c_is_bound(s)
       THEN /\ last' = Result("try_sever", s, 0, FALSE, 0)
            /\ UNCHANGED cown
       ELSE /\ cown' = [cown EXCEPT ![s] = "severed"]
            /\ last' = Result("try_sever", s, 0, TRUE, 0)
    /\ UNCHANGED <<cchecks, cstd, cPANIC, cpanicking, caborted, cbind, cptr, clich>>
    /\ UNCHANGED notCounting

\* Soul::get_mut: None when is_bound, otherwise Some(&mut this.1)
c_get_mut(s) ==
    /\ CRunning
    /\ cown[s] = "live"
    /\ last' = Result("get_mut", s, 0, ~c_is_bound(s), 0)
    /\ UNCHANGED cvars
    /\ UNCHANGED notCounting

\* Drop for Soul: panic() when is_bound
c_Soul_drop(s) ==
    /\ CRunning
    /\ cown[s] = "live"
    /\ cown' = [cown EXCEPT ![s] = "dropped"]
    /\ IF c_is_bound(s)
       THEN c_panic_call("Soul::drop", s, 0)
       ELSE /\ last' = Result("Soul::drop", s, 0, TRUE, 0)
            /\ UNCHANGED <<cPANIC, cpanicking, caborted>>
    /\ UNCHANGED <<cchecks, cstd, cbind, cptr, clich>>
    /\ UNCHANGED notCounting

\* Drop for Lich: panic()
c_Lich_drop(l) ==
    /\ CRunning
    /\ clich[l] # 0
    /\ clich' = [clich EXCEPT ![l] = 0]
    /\ c_panic_call("Lich::drop", clich[l], l)
    /\ UNCHANGED <<cchecks, cstd, cbind, cown, cptr>>
    /\ UNCHANGED notCounting

\* a panic of the program that is not raised by the library
c_user_panic ==
    /\ CRunning
    /\ ~cpanicking
    /\ cpanicking' = TRUE
    /\ last' = Result("user_panic", 0, 0, TRUE, 0)
    /\ UNCHANGED <<cchecks, cstd, cPANIC, caborted, cbind, cown, cptr, clich>>
    /\ UNCHANGED notCounting

\* the unwinding ends (catch_unwind, or the test harness takes the panic)
c_catch_unwind ==
    /\ CRunning
    /\ cpanicking
    /\ cpanicking' = FALSE
    /\ last' = Result("catch_unwind", 0, 0, TRUE, 0)
    /\ UNCHANGED <<cchecks, cstd, cPANIC, caborted, cbind, cown, cptr, clich>>
    /\ UNCHANGED notCounting

NextCounting ==
    \/ \E s \in CSouls : c_bind(s)
    \/ \E l \in CLiches : c_forget(l)
    \/ \E s \in CSouls, l \in CLiches : c_redeem(s, l)
    \/ \E s \in CSouls : c_try_sever(s)
    \/ \E s \in CSouls : c_get_mut(s)
    \/ \E s \in CSouls : c_Soul_drop(s)
    \/ \E l \in CLiches : c_Lich_drop(l)
    \/ c_user_panic
    \/ c_catch_unwind

SpecCounting == InitCounting /\ [][NextCounting]_vars

\* C1: once the destructor of a Soul has returned, no live Lich is bound to
\* that Soul (no Lich can dereference the value after the Soul is dropped).
C1_NoLichOutlivesSoul ==
    \A s \in Souls : soul[s] = "dropped" => LiveLiches(s) = {}

\* C2: a forcing sever that sleeps on the counter does not stay asleep once the
\* counter has reached 0, whether a Lich drop or a redeem brought it there
\* (t is the only thread severing that Soul).
C2_SeverLeavesWaitAtZero ==
    \A t \in Threads :
        (/\ pc[t] = "asleep"
         /\ count[tsoul[t]] = 0
         /\ \A u \in Threads \ {t} : tsoul[u] # tsoul[t])
            ~> (pc[t] # "asleep")

\* C3: a counter that holds the severed sentinel keeps it in every later step
\* and no new Lich becomes bound to its Soul.
C3_SeveredIsTerminal ==
    [][\A s \in Souls :
          count[s] = U32MAX =>
              /\ count'[s] = U32MAX
              /\ {l \in Liches : lichPc'[l] = "live" /\ lichCount'[l] = s}
                     \subseteq LiveLiches(s)]_vars

\* C4: redeem of a Lich on a Soul it is not bound to returns Err, leaves the
\* Lich as it was (alive, bound to its own Soul) and changes no counter.
C4_RedeemOtherIsErr ==
    [][\A s \in Souls, l \in Liches :
          (/\ last'.op = "redeem" /\ last'.soul = s /\ last'.lich = l
           /\ lichPc[l] = "live" /\ lichCount[l] # s)
              => /\ ~last'.ok
                 /\ count' = count
                 /\ lichPc' = lichPc
                 /\ lichCount' = lichCount]_vars

\* C4 witness: a redeem against the other Soul has returned Err
C4_Witness ==
    /\ last.op = "redeem" /\ ~last.ok
    /\ lichPc[last.lich] = "live"
    /\ lichCount[last.lich] # last.soul
    /\ soul[lichCount[last.lich]] = "alive"

\* C5: a successful redeem returns Ok(n) where n is the count after the
\* decrement, the number of Liches still outstanding.
C5_RedeemReturnsNewCount ==
    (last.op = "redeem" /\ last.ok) => last.val = count[last.soul]

\* C6: while a Soul is not severed, bindings() equals the number of live Liches.
C6_CountConservation ==
    \A s \in Souls :
        count[s] # U32MAX => bindings(count[s]) = Cardinality(LiveLiches(s))

\* C7: on the lock, while a Guard returned by Lich::borrow is alive the slot
\* holds the pointer and no forcing sever (Soul::sever, Soul drop, Lich::sever)
\* has completed; the slot is cleared only when no read guard is held, and a
\* forcing sever clears it only as the holder of the write lock.
C7_GuardKeepsSlot ==
    /\ [](binding = "lock" /\ GuardAlive => slot /\ ~forcedDone)
    /\ [][binding = "lock" /\ slot /\ ~slot' =>
            /\ Readers = 0
            /\ (last'.op \in {"lich_sever", "sever", "drop", "sever_drop", "try_sever_drop"}
                    => WriteLocked)]_vars

\* C7 witness: a Guard is alive on the lock while a forcing sever is blocked
C7_Witness == binding = "lock" /\ GuardAlive /\ WriterWaiting /\ slot

\* the Soul's severance has completed: Soul::sever, Soul::try_sever or the
\* drop of the Soul has returned
SoulSevered == life = "done" /\ lifeOp # "redeem"

\* C8: on the cell and the lock, once Soul::sever or the drop of the Soul has
\* returned, no borrow of a surviving Lich returns a Guard, and a cleared slot
\* is never refilled.
C8_NoBorrowAfterSever ==
    [][/\ SoulSevered =>
            /\ \A l \in Liches : guards'[l] <= guards[l]
            /\ (last'.op = "borrow" => ~last'.ok)
       /\ (~slot => ~slot')]_vars

\* C8 witness: after the Soul's sever returned, a surviving Lich borrowed and
\* got None
C8_Witness ==
    /\ SoulSevered
    /\ lifeOp \in {"sever", "sever_drop", "drop"}
    /\ \E l \in Liches : lich[l] = "live" /\ last = Result("borrow", 0, l, FALSE, 0)

\* C9: on the cell and the lock, a borrow made while the Soul is alive and has
\* not started sever, try_sever or drop returns a Guard, whatever the other
\* clones have done (clone, borrow, drop, sever, try_sever).
C9_BorrowBeforeSeverSucceeds ==
    [][life = "bound" /\ last'.op = "borrow" => last'.ok]_vars

\* C9 amended: a borrow made while the Soul is alive and has not started
\* sever, try_sever or drop, and before any Lich::sever call on a clone of the
\* binding has begun, returns a Guard.
C9_BorrowBeforeAnySeverSucceeds ==
    [][life = "bound" /\ ~lichSevering /\ last'.op = "borrow" => last'.ok]_vars

\* C9 witness: a borrow returned a Guard while the Soul is untouched and
\* another clone has been dropped
C9_Witness ==
    /\ life = "bound" /\ ~lichSevering
    /\ last.op = "borrow" /\ last.ok
    /\ \E m \in Liches : m # last.lich /\ lich[m] = "release"

DroppedTogether(p) ==
    /\ Len(pre[p]) = 2
    /\ pre[p][1] = "calm"
    /\ pre[p][2] # "caught"

\* C11: raw: when the Lich and the Soul of a ritual are both destroyed without
\* redeem, in either order, the misuse panic is raised exactly once: by the
\* first destructor, and not by the other, which runs while the thread unwinds.
C11_MisusePanicsOnce ==
    \A p \in Pairs : DroppedTogether(p) => raised[p] = 1 /\ pre[p][2] = "unwinding"

\* a step disposes of a half of a raw pair otherwise than by redeem
Disposing == \E p \in Pairs : Len(pre'[p]) = Len(pre[p]) + 1 /\ pre'[p][Len(pre'[p])] # "caught"

\* C12: raw: redeem of the two halves of one ritual consumes both and raises
\* no panic; every other disposal of a Lich or a Soul (drop, sever, try_sever)
\* panics unless the thread is already panicking.
C12_OnlyRedeemIsSilent ==
    [][/\ (last'.op = "redeem" /\ last'.soul = last'.lich /\ last' # last) =>
            /\ last'.ok
            /\ rlich'[last'.lich] = "gone" /\ rsoul'[last'.soul] = "gone"
            /\ panicking' = panicking /\ raised' = raised
       /\ (Disposing /\ ~panicking) => (panicking' /\ raised' # raised)
       /\ (Disposing /\ panicking) => (raised' = raised /\ last'.op # "abort")]_vars

C14_RedeemSomeUntilLast ==
    [][\A l \in PLiches, r \in Pairs :
          (kind \in {"rc", "atomic"} /\ plich[l] = r /\ psoul[r] = "alive"
              /\ last'.op = "redeem" /\ last'.lich = l /\ last'.soul = r) =>
              /\ last'.ok
              /\ plich'[l] = 0
              /\ IF \E m \in PLiches \ {l} : plich[m] = r
                 THEN last'.val = 1 /\ psoul'[r] = "alive"
                 ELSE last'.val = 0 /\ psoul'[r] = "gone"]_vars

\* C14 witness: a redeem gave the Soul back while a clone of the Lich lives
C14_Witness ==
    /\ kind \in {"rc", "atomic"}
    /\ last.op = "redeem" /\ last.ok /\ last.val = 1
    /\ psoul[last.soul] = "alive"
    /\ \E m \in PLiches : plich[m] = last.soul

\* C15: redeem (lock, cell) of a Lich with the Soul of another ritual returns
\* Err and changes nothing: the Lich stays bound to its own ritual, the Soul
\* stays alive, no slot is touched.
C15_RedeemOtherRitualIsErr ==
    [][\A l \in PLiches, r \in Pairs :
          (kind = "rc" /\ plich[l] # 0 /\ plich[l] # r /\ psoul[r] = "alive"
              /\ last'.op = "redeem" /\ last'.lich = l /\ last'.soul = r) =>
              /\ ~last'.ok
              /\ UNCHANGED <<pslot, psoul, plich, pcount>>]_vars

\* C15 witness: a redeem against the other ritual's Soul returned Err, and the
\* Lich and both Souls are still there
C15_Witness ==
    /\ kind = "rc"
    /\ last.op = "redeem" /\ ~last.ok
    /\ plich[last.lich] \notin {0, last.soul}
    /\ psoul[last.soul] = "alive" /\ psoul[plich[last.lich]] = "alive"

\* C16: pointer-owning cell: redeem of a Lich with a Soul it is not bound to
\* hands the Lich back and leaves the Lich's own binding intact.
C16_PointerRedeemKeepsLich ==
    [][\A l \in PLiches, r \in Pairs :
          (kind = "pointer" /\ plich[l] # 0 /\ plich[l] # r /\ psoul[r] = "alive"
              /\ last'.op = "redeem" /\ last'.lich = l /\ last'.soul = r) =>
              /\ ~last'.ok
              /\ plich'[l] = plich[l]
              /\ pslot' = pslot]_vars

\* the results of the severance calls: Lich::sever, Lich::try_sever,
\* Soul::sever, Soul::try_sever and the drop of the Soul
SeverResults ==
    {"lich_sever", "lich_try_sever", "sever", "sever_drop", "drop", "try_sever", "try_sever_drop"}

\* the slot is cleared, at most one Lich is left and no call is running
Quiet ==
    /\ ~slot
    /\ Cardinality({l \in Liches : lich[l] # "none"}) <= 1
    /\ \A l \in Liches : lich[l] \in {"none", "live"}
    /\ life \in {"bound", "done"}
    /\ Readers = 0

\* C17: lock and cell: a severance call by the Soul or by its Lich reports
\* true exactly when it cleared the slot, so only the first does; a later
\* call, made on the cleared slot, reports false or Ok(false): it does not
\* panic, does not decline and finds the lock free.
C17_FirstSeverReportsTrue ==
    [][/\ (last'.op \in SeverResults /\ last' # last)
            => ((last'.ok /\ last'.val = 1) <=> (slot /\ ~slot'))
       /\ Quiet =>
            /\ last'.op # "panic"
            /\ (last'.op \in SeverResults => last'.ok /\ last'.val = 0)
            /\ (last'.op \in {"lich_sever_call", "soul_sever_call"}
                    => Readers' = 0 /\ ~WriteLocked')]_vars

\* C17 witness: the Soul severed first, then its Lich's call reported false
C17_Witness ==
    /\ ~slot /\ life = "done"
    /\ lifeOp \in {"sever", "sever_drop", "try_sever", "try_sever_drop"}
    /\ last.op \in {"lich_sever", "lich_try_sever"} /\ last.ok /\ last.val = 0

\* the RwLock is held: by a Guard, by a borrow in flight or by a sever
LockHeld == Readers > 0 \/ WriteLocked

\* a step in which Soul::try_sever returns
TrySeverReturns == life = "bound" /\ last'.op = "try_sever" /\ (last' # last \/ slot' # slot)

C19_TrySeverOnlyUnbound ==
    [][\A s \in Souls :
          (soul[s] = "alive" /\ last'.op = "try_sever" /\ last'.soul = s) =>
              IF LiveLiches(s) # {}
              THEN ~last'.ok /\ count'[s] = count[s]
              ELSE last'.ok /\ count'[s] = U32MAX]_vars

\* C20: counter: bindings(), on the Soul and on a Lich, returns the counter
\* value n for every countable value 0 <= n < u32::MAX and 0 when the counter
\* holds the severed sentinel.
C20_BindingsHidesSentinel ==
    /\ \A c \in 0..U32MAX :
          bindings(c) = IF c = U32MAX THEN 0 ELSE c
    /\ \A s \in Souls :
          bindings(count[s]) = IF count[s] = U32MAX THEN 0 ELSE count[s]
    /\ \A l \in Liches :
          lichPc[l] = "live" =>
              bindings(count[lichCount[l]]) =
                  IF count[lichCount[l]] = U32MAX THEN 0 ELSE count[lichCount[l]]

\* one counter at the sentinel with a Lich still pointing at it, the other
\* counter at a countable value above zero
C20_Witness ==
    \E s, t \in Souls, l \in Liches :
        /\ count[s] = U32MAX /\ lichPc[l] = "live" /\ lichCount[l] = s
        /\ count[t] > 0 /\ count[t] < U32MAX

\* C21: counter: neither Soul::bind nor Lich::clone moves the counter to the
\* severed sentinel or wraps it around; creating a Lich when u32::MAX - 1 are
\* outstanding fails with a panic and leaves the counter unchanged.
C21_CreateNeverReachesSentinel ==
    [][\A s \in Souls :
          (last'.op \in {"bind", "clone"} /\ last'.soul = s
                /\ (last' # last \/ count' # count)) =>
              /\ count'[s] # U32MAX \/ count[s] = U32MAX
              /\ count'[s] >= count[s]
              /\ count[s] = U32MAX - 1 => ~last'.ok /\ count'[s] = count[s]]_vars

\* C22: cell: severing or dropping the Soul while a Guard is alive panics on
\* the spot; the call neither waits for the Guard nor clears the slot under it.
C22_CellSeverPanicsUnderGuard ==
    [][(binding = "cell" /\ life = "bound" /\ GuardAlive /\ life' # life
            /\ lifeOp' \in {"sever", "drop"}) =>
          /\ last'.op = "panic"
          /\ life' \in {"panicked", "aborted"}
          /\ slot' = slot /\ slot
          /\ guards' = guards]_vars

\* the Soul's destructor has panicked and the Guard still reads the slot
C22_Witness ==
    /\ binding = "cell" /\ life = "panicked" /\ lifeOp = "drop"
    /\ GuardAlive /\ slot
    /\ last.op = "panic"

\* C23: only a forcing severance (sever, the Soul's destructor) can block its
\* caller: an operation that is neither of them, here Soul::try_sever on the
\* lock, never stands at a lock acquisition that another thread's hold on the
\* lock keeps from being granted.
C23_OnlyForcingSeverBlocks ==
    (binding = "lock" /\ lifeOp \in {"try_sever", "try_sever_drop"}
        /\ life = "wlock") => try_write

\* the Soul is inside a forcing sever (Soul::sever or its destructor)
AtomicSevering == asoul \in {"cas", "wait", "asleep"}

\* C24: ritual counter: a Soul dropped or severed while clones are alive does
\* not return before every clone is gone; once every clone has been dropped
\* or redeemed the sever returns, also when the last drop falls between the
\* failed compare-exchange and the wait, and Soul::sever returns true.
C24_SeverWaitsForClones ==
    /\ []((aop = "sever_drop" \/ (asoul = "done" /\ aop = "drop")) => ALive = {})
    /\ [](aop = "sever_drop" => aret = "true")
    /\ (AtomicSevering /\ ALive = {}) ~> (asoul = "done")

\* the last clone was dropped between the failed compare-exchange and the wait
C24_Witness ==
    /\ asoul = "wait" /\ aop \in {"sever", "drop"}
    /\ aseen > 0 /\ location = 0
    /\ ALive = {}

\* C25: lock and cell: once a Lich::sever has returned true the Soul reports
\* is_bound() == false (the severing Lich's own Arc is released as the call
\* returns), and once Soul::sever has returned true every surviving Lich
\* reports is_bound() == false.
C25_SeveredIsNotBound ==
    /\ [][(last'.op = "lich_sever" /\ last'.val = 1 /\ slot /\ ~slot'
              /\ life' = "bound") =>
            \/ ~is_life_bound'
            \/ strong_count' = 1 /\ lich'[last'.lich] = "release"]_vars
    /\ []((life = "done" /\ lifeOp \in {"sever", "sever_drop"}) => ~is_data_bound)

\* a Lich::sever has emptied the slot
LichSevered == lichSevering /\ ~slot

\* C26: lock and cell: Lich::sever severs for the calling Lich and for all of
\* its clones: once it has returned true the slot is empty and stays empty,
\* borrow on every other clone returns None, and the remaining clones and the
\* Soul are redeemed or dropped without an error.
C26_LichSeverCoversClones ==
    /\ [][(last'.op = "lich_sever" /\ last'.val = 1 /\ lich' # lich) => ~slot']_vars
    /\ [][~slot => ~slot']_vars
    /\ [][(LichSevered /\ last'.op = "borrow" /\ (last' # last \/ probe' # probe)) =>
            ~last'.ok /\ guards' = guards]_vars
    /\ [][(LichSevered /\ last' # last) =>
            /\ last'.op # "panic"
            /\ last'.op = "redeem" => last'.ok]_vars

\* a clone of the Lich that severed has borrowed and got None, the Soul alive
C26_Witness ==
    /\ LichSevered /\ life = "bound"
    /\ \E l \in Liches : lich[l] = "live" /\ last = Result("borrow", 0, l, FALSE, 0)

\* C27: counter: the decrement that brings the counter to 0 is a release that
\* synchronizes with the acquire compare-exchange of the severing thread, so
\* every read made through a Lich happens-before the return of the sever.
C27_ReadsHappenBeforeSever ==
    osoul = "severed" => acc \subseteq hb

\* C28: counter: every operation that decrements the counter from 1 to 0 goes
\* on to wake the counter, whether it is the Lich destructor or Soul::redeem,
\* and no other decrement does.
C28_LastDecrementWakes ==
    /\ [][\A s \in Souls :
            (count[s] = 1 /\ count'[s] = 0) =>
                \E l \in Liches :
                    lichPc[l] = "live" /\ lichCount[l] = s /\ lichPc'[l] = "wake"]_vars
    /\ [][\A l \in Liches :
            (lichPc[l] = "live" /\ lichPc'[l] = "wake") =>
                count[lichCount[l]] = 1 /\ count'[lichCount[l]] = 0]_vars

\* the step is Lich::try_sever or the destructor of Lich l
LichLetsGo(l) ==
    /\ lich[l] = "live"
    /\ last'.op \in {"lich_drop", "lich_try_sever"} /\ last'.lich = l
    /\ (last' # last \/ lich' # lich \/ slot' # slot)

OtherClones(l) == {m \in Liches \ {l} : lich[m] = "live"}

\* C29: lock and cell: Lich::try_sever and the Lich destructor clear the slot
\* only when the Lich is the sole remaining clone and the slot is neither
\* borrowed nor locked; with another clone alive try_sever returns Err(self)
\* and a drop leaves the slot intact, so the other clones can still borrow
\* while the Soul lives and nothing has severed.
C29_OnlyLastCloneClears ==
    /\ [][\A l \in Liches :
            (LichLetsGo(l) /\ slot /\ ~slot') =>
                /\ \A m \in Liches \ {l} : lich[m] = "none"
                /\ Readers = 0 /\ ~WriteLocked]_vars
    /\ [][\A l \in Liches :
            (LichLetsGo(l) /\ OtherClones(l) # {}) =>
                /\ slot' = slot
                /\ last'.op = "lich_try_sever" => ~last'.ok /\ lich' = lich]_vars
    /\ [][\A m \in Liches :
            (/\ lich[m] = "live" /\ slot /\ life = "bound"
             /\ ~WriteLocked /\ ~WriterWaiting
             /\ last'.op = "borrow" /\ last'.lich = m
             /\ (last' # last \/ guards' # guards \/ probe' # probe)) =>
                last'.ok /\ guards'[m] = guards[m] + 1]_vars

\* one clone has just been dropped, another is alive and the slot is filled
C29_Witness ==
    /\ last.op = "lich_drop" /\ lich[last.lich] # "live"
    /\ \E m \in Liches : lich[m] = "live"
    /\ slot /\ life = "bound"

\* the Soul was consumed by a Soul::try_sever that returned Ok
SoulTrySevered == life = "done" /\ lifeOp \in {"try_sever", "try_sever_drop"}

\* the step is a Lich::try_sever that returns
LichTrySeverReturns ==
    last'.op = "lich_try_sever" /\ (last' # last \/ lich' # lich)

BindReturns(s) == last'.op = "bind" /\ last'.soul = s /\ last'.ok

\* the step is a call of redeem on Soul s that returned Ok
RedeemOk(s) == last'.op = "redeem" /\ last'.soul = s /\ last'.ok

\* C31: counting raw Soul: bindings() is the number of bind calls minus the
\* number of successful redeem calls (every bind that returns adds one, every
\* redeem that returns Ok takes one, nothing else changes it); redeem returns
\* Ok(true) exactly when it brings bindings to 0 and Ok(false) when Liches
\* remain; redeem returns Err and leaves the bindings and the Lich unchanged
\* when bindings is already 0 or the Lich's address differs from the Soul's.
C31_BindingsFollowBindAndRedeem ==
    [][\A s \in CSouls :
          /\ c_bindings(s)' - c_bindings(s)
                = (IF BindReturns(s) THEN 1 ELSE 0) - (IF RedeemOk(s) THEN 1 ELSE 0)
          /\ RedeemOk(s) => (last'.val = 1 <=> c_bindings(s)' = 0)
          /\ \A l \in CLiches :
                (/\ last'.op = "redeem" /\ last'.soul = s /\ last'.lich = l
                 /\ clich[l] # 0
                 /\ (c_bindings(s) = 0 \/ cptr[clich[l]] # cptr[s]))
                => (~last'.ok /\ cbind' = cbind /\ clich' = clich)
      ]_vars

\* the step is the destructor of Soul s
SoulDropped(s) == cown[s] = "live" /\ cown'[s] = "dropped"

\* the step is the destructor of the Lich l
LichDropped(l) == clich[l] # 0 /\ last'.op = "Lich::drop" /\ last'.lich = l

\* the step gives the pointer of Soul s back to the caller
Released(s) == cown[s] = "live" /\ cown'[s] = "severed"

\* C32: counting raw Soul: the pointer is released only at bindings() == 0:
\* get_mut returns Some and try_sever returns Ok exactly when bindings() == 0,
\* and try_sever returns Err(self) unchanged otherwise; the destructor of the
\* Soul panics exactly when bindings() > 0 and the thread is not already
\* panicking, and the destructor of a Lich panics exactly when the thread is
\* not already panicking.
C32_ReleaseOnlyUnbound ==
    [][/\ \A s \in CSouls :
             /\ (last'.op = "try_sever" /\ last'.soul = s)
                => /\ last'.ok <=> c_bindings(s) = 0
                   /\ last'.ok => Released(s)
                   /\ ~last'.ok => UNCHANGED cvars
             /\ (last'.op = "get_mut" /\ last'.soul = s)
                => (last'.ok <=> c_bindings(s) = 0)
             /\ Released(s) => c_bindings(s) = 0
             /\ SoulDropped(s) => (~last'.ok <=> (c_bindings(s) > 0 /\ ~cpanicking))
       /\ \A l \in CLiches : LichDropped(l) => (~last'.ok <=> ~cpanicking)
      ]_vars

\* thread t is inside a call of Soul::sever (not of the destructor)
Severing(t) == pc[t] # "idle" /\ ~tdrop[t]

\* every Lich has been dropped, its destructor has returned
NoLichLeft == \A l \in Liches : lichPc[l] = "none"

\* C33: counter strategy with several threads inside the forcing Soul::sever
\* of one pinned Soul: once the last Lich has been dropped, every one of the
\* calls returns (unless a new Lich is bound meanwhile); none stays blocked
\* forever.
C33_EverySeverReturns ==
    \A t \in Severers :
        (Severing(t) /\ NoLichLeft) ~> (~Severing(t) \/ ~NoLichLeft)

\* C34: counter strategy: the internal assertions hold in every step: the
\* destructor of a Lich never finds the counter at 0 or at the severed sentinel
\* (the unreachable!() of decrement), Lich::clone never finds the sentinel (the
\* unreachable!() of increment), and bindings() is 0 when Soul::sever or a
\* successful Soul::try_sever unpins the Soul (the debug_assert of unpin).
C34_AssertionsHold ==
    [][/\ last'.op = "drop" => count[last'.soul] \notin {0, U32MAX}
       /\ last'.op = "clone" => count[last'.soul] # U32MAX
       /\ (last'.op \in {"sever", "try_sever"} /\ last'.ok)
          => bindings(count'[last'.soul]) = 0
      ]_vars

\* thread t returns from sever::<true> in this step
SeverReturns(t) == pc[t] = "cas" /\ pc'[t] = "idle"

\* C35: counter strategy: sever::<true> returns only true, and only on a
\* compare_exchange that found the counter at 0 (swapped to the sentinel) or
\* at the sentinel, so that Soul::sever never takes its panic branch;
\* sever::<false> returns false exactly when it finds a count in
\* 1..u32::MAX-1, and then leaves the counter unchanged.
C35_SeverHelperResults ==
    /\ \A c \in 0..U32MAX :
          /\ compare_exchange(c)[2] = "true" <=> c \in {0, U32MAX}
          /\ compare_exchange(c)[1] = IF c = 0 THEN U32MAX ELSE c
    /\ [][/\ \A t \in DOMAIN pc :
                SeverReturns(t)
                => /\ last'.op \in {"sever", "soul_drop"} /\ last'.ok
                   /\ count[tsoul[t]] \in {0, U32MAX}
                   /\ count'[tsoul[t]] = U32MAX
          /\ last'.op \in {"sever", "soul_drop"} => last'.ok
          /\ last'.op = "try_sever"
             => /\ ~last'.ok <=> count[last'.soul] \in 1..(U32MAX - 1)
                /\ ~last'.ok => count' = count
                /\ last'.ok => count'[last'.soul] = U32MAX
         ]_vars

\* try_sever has returned false on a bound counter on which a forcing sever
\* sleeps
C35_Witness ==
    /\ last.op = "try_sever" /\ ~last.ok
    /\ count[last.soul] \in 1..(U32MAX - 1)
    /\ \E t \in DOMAIN pc : pc[t] = "asleep" /\ tsoul[t] = last.soul

====
